---- MODULE Spec2Model ----
(***************************************************************************)
(* A model of yaml-doctor: the StringEditor position map, the Markdown     *)
(* front-matter splitter, the quoted-scalar boundary oracle and the lint   *)
(* listener that runs alongside the base YAML parser.                      *)
(*                                                                         *)
(* Strings are sequences of one-character strings.  Positions are the      *)
(* zero-based offsets the JavaScript code uses; At and Slice translate     *)
(* them to TLA+'s one-based sequences.                                     *)
(***************************************************************************)
EXTENDS Integers, Sequences, FiniteSets, TLC

VARIABLES
    \* ---- StringEditor under arbitrary splices (SpecEditor) ----
    editor,       \* the StringEditor: [value, originalValue, edits]
    origin,       \* ghost: for each character of editor.value, its index in
                  \* originalValue, or -1 when a splice inserted it
    nSplices,     \* number of splices made so far
    \* ---- front-matter splitter (SpecPage) ----
    pageText,     \* the text of a Markdown page
    segments,     \* getPageSegments(pageText), or <<>> before the call
    joined,       \* joinPageSegments of the two segments, or <<>> before
    \* ---- lint (Spec, SpecFixAgain) ----
    yamlText,     \* the text lint was called with
    fix,          \* options.fix
    removeInvalidCharacters,  \* options.removeInvalidCharacters
    stateEditor,  \* the StringEditor whose value the parser reads
    fixedEditor,  \* the StringEditor whose value is returned as fixed
    input,        \* state.input of the parser
    issues,       \* the issues pushed so far
    unquotedVariablePosition, \* threshold of the unquoted variable check
    atSignPosition,           \* threshold of the @ check
    lastTokenPosition,        \* threshold of the leading [ check
    tokenIndent,  \* state.lineIndent of the last open
    tokenIndentWarnings,      \* indices (in issues) of the deficient
                  \* indentation warnings since the last open
    previousPosition,         \* previousState.position, -1 for null
    pc,           \* "idle", "start", "quoted", "parse", "done", "thrown"
    parserPosition,           \* state.position of the parser
    nodes,        \* the nodes the parser has opened and not yet closed
    loop,         \* the variables of the running quoted-scalar loop
    nOpens,       \* open events delivered so far
    thrownBy,     \* who raised the exception that left lint
    runNumber,    \* 1 for the first lint of a text, 2 for the lint of its
                  \* fixed output
    firstFixed,   \* the fixed output of run 1, <<>> before run 2
    \* ---- lintFile (SpecFile) ----
    extname,      \* path.extname(filePath)
    content,      \* the content lintFile checks
    markdownText, \* markdown: the Markdown segment of a .md file, or null
    write,        \* FALSE when options.write === false
    debug,        \* options.debug
    written,      \* what fs.writeFile has written to filePath, in order
    filePc,       \* "idle", "linting", "returned", "rejected"
    \* ---- Batch and the command line (SpecBatch) ----
    fileSystem,   \* for every file, what check.checkFile does with it
    patterns,     \* options._, the PATH arguments
    filePaths,    \* resolvePaths(options._), <<>> before the call
    summary,      \* batch.summary
    results,      \* what batch.checkFile has settled with, file by file
    exitCode,     \* process.exitCode
    batchPc,      \* "idle", "resolve", "files", "summarized", "nofiles",
                  \* "failed"
    searched,     \* the arguments of one findProbableEndOfQuotedScalar call
    ending        \* what the call returned, <<>> before it returns

editorVars == <<editor, origin, nSplices>>
pageVars == <<pageText, segments, joined>>
sessionVars == <<stateEditor, fixedEditor, input, issues>>
thresholdVars == <<unquotedVariablePosition, atSignPosition,
                   lastTokenPosition>>
lintVars == <<yamlText, fix, removeInvalidCharacters, sessionVars,
              thresholdVars, tokenIndent, tokenIndentWarnings,
              previousPosition, pc, parserPosition, nodes, loop, nOpens,
              thrownBy, runNumber, firstFixed>>
fileVars == <<extname, content, markdownText, write, debug, written,
              filePc>>
batchVars == <<fileSystem, patterns, filePaths, summary, results, exitCode,
               batchPc>>
scanVars == <<searched, ending>>
vars == <<editorVars, pageVars, lintVars, fileVars, batchVars, scanVars>>

(***************************************************************************)
(* Bounds of the model.                                                    *)
(***************************************************************************)
MaxOrig == 4        \* length of the string a StringEditor starts from
MaxSplices == 3     \* splices applied to one StringEditor
MaxInsert == 2      \* longest text one splice inserts
MaxLines == 3       \* lines of a Markdown page
MaxFrags == 4       \* fragments a linted text is made of
MaxOpens == 3       \* open events the parser delivers in one lint
MaxDepth == 2       \* nodes the parser has open at once
MaxIterations == 8  \* passes of one quoted-scalar loop that are followed
MaxPatterns == 2    \* PATH arguments of one run of the command line
MaxScan == 4        \* length of a string searched for the end of a scalar

(***************************************************************************)
(* JavaScript string primitives.                                           *)
(***************************************************************************)
Min(a, b) == IF a < b THEN a ELSE b
Max(a, b) == IF a > b THEN a ELSE b

\* string[i]; "undefined" outside the string
At(s, i) == IF i >= 0 /\ i < Len(s) THEN s[i + 1] ELSE "undefined"

\* The index String.prototype.slice clamps an argument to.
SliceIndex(s, i) == IF i < 0 THEN Max(Len(s) + i, 0) ELSE Min(i, Len(s))

\* string.slice(from, to)
Slice(s, from, to) ==
    LET a == SliceIndex(s, from)
        b == SliceIndex(s, to)
    IN  IF a >= b THEN <<>> ELSE SubSeq(s, a + 1, b)

\* string.slice(from)
SliceFrom(s, from) == Slice(s, from, Len(s))

\* character.repeat(n) for n >= 0
Repeat(c, n) == [i \in 1..n |-> c]

(***************************************************************************)
(* StringEditor                                                            *)
(***************************************************************************)
\* new StringEditor(value)
NewEditor(value) == [value |-> value, originalValue |-> value, edits |-> <<>>]

\* The backward loop of splice over this._edits.  j is the JavaScript i plus
\* one, so that j = 0 is "ran off the front of the list".
RECURSIVE SpliceLoop(_, _, _, _, _, _)
SpliceLoop(edits, j, removable, accumulatedSize, position, size) ==
    IF j = 0
    THEN [edits |-> edits, j |-> 0, removable |-> removable,
          accumulatedSize |-> accumulatedSize]
    ELSE LET edit == edits[j] IN
         IF edit.position > position
         THEN IF removable > 0
              THEN SpliceLoop(edits, j - 1, removable + 1, accumulatedSize,
                              position, size)
              ELSE IF edit.position + size > position
                   THEN SpliceLoop(
                            [edits EXCEPT ![j] =
                                [position |-> edit.position + size,
                                 size |-> edit.size + size]],
                            j - 1, removable, accumulatedSize, position, size)
                   ELSE SpliceLoop(edits, j - 1, removable + 1,
                                   accumulatedSize + edit.size, position, size)
         ELSE IF edit.position = position
              THEN SpliceLoop(edits, j - 1, removable + 1,
                              IF removable = 0
                              THEN accumulatedSize + edit.size
                              ELSE accumulatedSize,
                              position, size)
              ELSE [edits |-> edits, j |-> j, removable |-> removable,
                    accumulatedSize |->
                        IF removable = 0
                        THEN accumulatedSize + edit.size
                        ELSE accumulatedSize]

\* splice with a new edit that carries its own size only.
SpliceEditsOwnSize(edits, position, size) ==
    LET r == SpliceLoop(edits, Len(edits), 0, size, position, size)
        new == [position |-> position, size |-> size]
    IN  IF r.removable = 0
        THEN SubSeq(r.edits, 1, r.j) \o <<new>>
                 \o SubSeq(r.edits, r.j + 1, Len(r.edits))
        ELSE SubSeq(r.edits, 1, r.j) \o <<new>>
                 \o SubSeq(r.edits, r.j + r.removable + 1, Len(r.edits))

\* The edit list splice(position, remove, insert) leaves behind.
SpliceEdits(edits, position, size) ==
    LET r == SpliceLoop(edits, Len(edits), 0, size, position, size)
        new == [position |-> position, size |-> r.accumulatedSize]
    IN  IF r.removable = 0
        THEN SubSeq(r.edits, 1, r.j) \o <<new>>
                 \o SubSeq(r.edits, r.j + 1, Len(r.edits))
        ELSE SubSeq(r.edits, 1, r.j) \o <<new>>
                 \o SubSeq(r.edits, r.j + r.removable + 1, Len(r.edits))

\* splice whose edit records the inserted length alone.
SpliceInsertedLength(ed, position, remove, insert) ==
    [value |-> Slice(ed.value, 0, position) \o insert
                   \o SliceFrom(ed.value, position + remove),
     originalValue |-> ed.originalValue,
     edits |-> SpliceEdits(ed.edits, position, Len(insert))]

\* StringEditor.splice(position, remove, insert)
Splice(ed, position, remove, insert) ==
    [value |-> Slice(ed.value, 0, position) \o insert
                   \o SliceFrom(ed.value, position + remove),
     originalValue |-> ed.originalValue,
     edits |-> SpliceEdits(ed.edits, position, Len(insert) - remove)]

\* StringEditor.originalPosition(position)
RECURSIVE OriginalPositionLoop(_, _, _)
OriginalPositionLoop(edits, j, position) ==
    IF j = 0 THEN position
    ELSE IF edits[j].position <= position
         THEN position - edits[j].size
         ELSE OriginalPositionLoop(edits, j - 1, position)

OriginalPosition(ed, position) ==
    OriginalPositionLoop(ed.edits, Len(ed.edits), position)

\* The forward walk of currentPosition.
RECURSIVE RollForward(_, _, _, _)
RollForward(edits, j, position, offset) ==
    IF j > Len(edits) THEN position
    ELSE IF edits[j].position > position THEN position
         ELSE RollForward(edits, j + 1,
                          position + edits[j].size - offset, edits[j].size)

RECURSIVE CurrentPositionLoop(_, _, _)
CurrentPositionLoop(edits, j, position) ==
    IF j = 0 THEN position
    ELSE IF edits[j].position <= position
         THEN RollForward(edits, j + 1, position + edits[j].size,
                          edits[j].size)
         ELSE CurrentPositionLoop(edits, j - 1, position)

\* StringEditor.currentPosition(originalPosition)
CurrentPosition(ed, originalPosition) ==
    CurrentPositionLoop(ed.edits, Len(ed.edits), originalPosition)

(***************************************************************************)
(* SpecEditor: one StringEditor under an arbitrary sequence of splices.    *)
(***************************************************************************)
OrigChars == <<"a", "b", "c", "d", "e", "f", "g", "h">>

EditorStart ==
    /\ editor = NewEditor(SubSeq(OrigChars, 1, MaxOrig))
    /\ origin = [i \in 1..MaxOrig |-> i - 1]
    /\ nSplices = 0

\* The page variables while no page is being split.
PageIdle ==
    /\ pageText = <<>>
    /\ segments = <<>>
    /\ joined = <<>>

\* lint has not been called.
LintIdle ==
    /\ yamlText = <<>> /\ fix = FALSE /\ removeInvalidCharacters = TRUE
    /\ stateEditor = NewEditor(<<>>) /\ fixedEditor = NewEditor(<<>>)
    /\ input = <<>> /\ issues = <<>>
    /\ unquotedVariablePosition = -1 /\ atSignPosition = -1
    /\ lastTokenPosition = -1
    /\ tokenIndent = 0 /\ tokenIndentWarnings = <<>>
    /\ previousPosition = -1
    /\ pc = "idle" /\ parserPosition = 0 /\ nodes = <<>> /\ loop = <<>>
    /\ nOpens = 0 /\ thrownBy = "nobody" /\ runNumber = 1
    /\ firstFixed = <<>>

\* lintFile has not been called.
null == <<"null">>

FileIdle ==
    /\ extname = ".yaml" /\ content = <<>> /\ markdownText = null
    /\ write = TRUE /\ debug = FALSE
    /\ written = <<>> /\ filePc = "idle"

\* findProbableEndOfQuotedScalar has not been called on its own.
ScanIdle == searched = <<>> /\ ending = <<>>

\* No batch has been made.
NewSummary ==
    [files |-> 0, errors |-> 0, warnings |-> 0, fixed |-> 0,
     unreadablePaths |-> <<>>]

BatchIdle ==
    /\ fileSystem = <<>> /\ patterns = <<>> /\ filePaths = <<>>
    /\ summary = NewSummary /\ results = <<>> /\ exitCode = 0
    /\ batchPc = "idle"

\* The strings an editor is constructed from: without a line break, with a
\* leading one, with one inside, and with two.
Originals ==
    {[i \in 1..MaxOrig |-> IF i \in B THEN "\n" ELSE OrigChars[i]] :
        B \in {{}, {1}, {2}, {1, 3}}}

EditorInit ==
    /\ \E value \in Originals : editor = NewEditor(value)
    /\ origin = [i \in 1..MaxOrig |-> i - 1]
    /\ nSplices = 0
    /\ PageIdle /\ LintIdle /\ FileIdle /\ BatchIdle /\ ScanIdle

\* The ghost bookkeeping that follows the characters through a splice.
SpliceOrigin(org, position, remove, insert) ==
    Slice(org, 0, position) \o [i \in 1..Len(insert) |-> -1]
        \o SliceFrom(org, position + remove)

EditorSplice ==
    /\ nSplices < MaxSplices
    /\ \E position \in 0..Len(editor.value) :
       \E remove \in 0..(Len(editor.value) - position) :
       \E n \in 0..MaxInsert :
          /\ remove + n > 0
          /\ editor' = Splice(editor, position, remove, Repeat("x", n))
          /\ origin' = SpliceOrigin(origin, position, remove, Repeat("x", n))
    /\ nSplices' = nSplices + 1
    /\ UNCHANGED <<pageVars, lintVars, fileVars, batchVars, scanVars>>

EditorNext == EditorSplice

SpecEditor == EditorInit /\ [][EditorNext]_vars

(***************************************************************************)
(* Front-matter splitter (parse-page)                                      *)
(***************************************************************************)
\* JavaScript's \s, over the characters of the model
IsSpace(c) == c \in {" ", "\n", "\t"}

\* string.indexOf(c, from), -1 when there is none
RECURSIVE IndexOf(_, _, _)
IndexOf(s, c, from) ==
    IF from >= Len(s) THEN -1
    ELSE IF from < 0 THEN IndexOf(s, c, 0)
    ELSE IF s[from + 1] = c THEN from
    ELSE IndexOf(s, c, from + 1)

\* string.lastIndexOf(c, from), -1 when there is none
RECURSIVE LastIndexOf(_, _, _)
LastIndexOf(s, c, from) ==
    IF Len(s) = 0 THEN -1
    ELSE IF from < 0 THEN LastIndexOf(s, c, 0)
    ELSE IF from >= Len(s) THEN LastIndexOf(s, c, Len(s) - 1)
    ELSE IF s[from + 1] = c THEN from
    ELSE IF from = 0 THEN -1
    ELSE LastIndexOf(s, c, from - 1)

\* countCharactersSparse(character, string, start, end): one more for every
\* occurrence indexOf finds before end.
RECURSIVE countCharactersSparse(_, _, _, _)
countCharactersSparse(character, string, start, end) ==
    LET found == IndexOf(string, character, start)
    IN  IF found > -1 /\ found < Min(end, Len(string))
        THEN 1 + countCharactersSparse(character, string, found + 1, end)
        ELSE 0

\* StringEditor.markOriginalPosition(position): the mark's position, line
\* and column.
YamlMark(ed, position) ==
    LET originalPosition == OriginalPosition(ed, position)
        lineStart == LastIndexOf(ed.originalValue, "\n",
                                 originalPosition - 1) + 1
    IN  [position |-> originalPosition,
         line |-> countCharactersSparse("\n", ed.originalValue, 0, lineStart),
         column |-> originalPosition - lineStart]

\* string.startsWith(prefix) at offset i
StartsWithAt(s, i, prefix) ==
    /\ i >= 0
    /\ i + Len(prefix) <= Len(s)
    /\ SubSeq(s, i + 1, i + Len(prefix)) = prefix

\* Length of the run of \s characters that starts at i.
RECURSIVE SpaceRun(_, _)
SpaceRun(s, i) ==
    IF i < Len(s) /\ IsSpace(s[i + 1]) THEN 1 + SpaceRun(s, i + 1) ELSE 0

yamlDivider == <<"-", "-", "-", "\n">>

\* The length of the match of /^---\s*$/m that starts at i, or -1.  \s* is
\* greedy and backs off to the last line break of the run: $ matches only at
\* the end of the text or in front of a line break.
DividerLengthAt(s, i) ==
    IF ~((i = 0 \/ At(s, i - 1) = "\n") /\ StartsWithAt(s, i, <<"-", "-", "-">>))
    THEN -1
    ELSE LET run == SpaceRun(s, i + 3)
             lastBreak == LastIndexOf(s, "\n", i + 3 + run - 1)
         IN  IF i + 3 + run = Len(s) THEN 3 + run
             ELSE IF run > 0 /\ lastBreak >= i + 3 THEN lastBreak - i
             ELSE -1

\* text.match(yamlDividerPattern): [index, length] of the first match, index
\* -1 when there is none.
RECURSIVE DividerSearch(_, _)
DividerSearch(s, i) ==
    IF i > Len(s) THEN [index |-> -1, length |-> 0]
    ELSE IF DividerLengthAt(s, i) >= 0
         THEN [index |-> i, length |-> DividerLengthAt(s, i)]
         ELSE DividerSearch(s, i + 1)

DividerMatch(s) == DividerSearch(s, 0)

\* The position after the run of characters that are none of #, \s and :
RECURSIVE KeyEnd(_, _)
KeyEnd(s, i) ==
    IF i < Len(s) /\ ~IsSpace(s[i + 1]) /\ s[i + 1] \notin {"#", ":"}
    THEN KeyEnd(s, i + 1) ELSE i

\* The positions /^(---\n)?(\s*(#.*)?\n)*/ can stop at, then \s*: the least
\* set closed under skipping white space and skipping a comment line.
RECURSIVE YamlishReach(_, _)
YamlishReach(s, reached) ==
    LET bySpace == {q \in 0..Len(s) : \E p \in reached :
                        q >= p /\ q <= p + SpaceRun(s, p)}
        byComment == {q \in 1..Len(s) : \E p \in reached :
                        /\ At(s, p) = "#"
                        /\ IndexOf(s, "\n", p) >= 0
                        /\ q = IndexOf(s, "\n", p) + 1}
        next == reached \cup bySpace \cup byComment
    IN  IF next = reached THEN reached ELSE YamlishReach(s, next)

\* yamlish.test(text): /^(---\n)?(\s*(#.*)?\n)*\s*[^#\s:]+:/
Yamlish(s) ==
    LET start == {0} \cup (IF StartsWithAt(s, 0, yamlDivider) THEN {4} ELSE {})
    IN  \E p \in YamlishReach(s, start) :
            KeyEnd(s, p) > p /\ At(s, KeyEnd(s, p)) = ":"

\* getPageSegments(pageContent): <<frontMatter, markdown>>
getPageSegments(text) ==
    LET first == DividerMatch(text)
        offset == first.length + 1
        second == DividerMatch(SliceFrom(text, offset))
        ends ==
            IF first.index = -1 THEN <<0, 0>>
            ELSE IF first.index = 0
                 THEN IF second.index >= 0
                      THEN <<second.index + offset,
                             second.index + offset + second.length + 1>>
                      ELSE <<Len(text), Len(text)>>
                 ELSE IF Yamlish(text)
                      THEN <<first.index, first.index + first.length + 1>>
                      ELSE <<0, 0>>
    IN  <<Slice(text, 0, ends[1]), SliceFrom(text, ends[2])>>

\* joinPageSegments(metaText, markdown)
joinPageSegments(metaText, markdown) ==
    IF metaText = <<>> THEN markdown
    ELSE IF ~StartsWithAt(metaText, 0, yamlDivider)
         THEN yamlDivider \o metaText \o yamlDivider \o markdown
         ELSE metaText \o yamlDivider \o markdown

(***************************************************************************)
(* lint: patterns and scanning helpers                                     *)
(***************************************************************************)
\* The sentinel the parser keeps after the last character of state.input.
NUL == "NUL"

\* The characters of the model that JavaScript's \w matches.
IsWord(c) == c \in {"a", "b", "x", "0", "1", "_"}

\* Length of the run of \w characters that starts at i.
RECURSIVE WordRun(_, _)
WordRun(s, i) ==
    IF i < Len(s) /\ IsWord(s[i + 1]) THEN 1 + WordRun(s, i + 1) ELSE 0

\* tokensAfterString.test(s): /^($|\s*[:,\]}\n#])/
tokensAfterString(s) ==
    \/ s = <<>>
    \/ \E k \in 0..SpaceRun(s, 0) : At(s, k) \in {":", ",", "]", "}", "\n", "#"}

\* nextLine.match(lineAfterQuotedScalar):
\* /^(\s*)(-\s|-\s\w+\s*:\s|\w+\s*:\s|\u{0000}|$)/u.  The length of the first
\* group when the line matches, -1 when it does not.
lineAfterQuotedScalar(s) ==
    LET r == SpaceRun(s, 0)
        w == WordRun(s, r)
        colon == r + w + SpaceRun(s, r + w)
    IN  IF \/ (At(s, r) = "-" /\ r + 1 < Len(s) /\ IsSpace(At(s, r + 1)))
           \/ (w > 0 /\ At(s, colon) = ":" /\ colon + 1 < Len(s)
                     /\ IsSpace(At(s, colon + 1)))
           \/ At(s, r) = NUL
           \/ r = Len(s)
        THEN r ELSE -1

\* Number of backslashes that end s: string.match(endsWithBackslashes)
RECURSIVE TrailingBackslashes(_)
TrailingBackslashes(s) ==
    IF s # <<>> /\ s[Len(s)] = "\\"
    THEN 1 + TrailingBackslashes(SubSeq(s, 1, Len(s) - 1)) ELSE 0

\* A search that takes the first quote, escaped or not, for the end.
findFirstQuote(string, quoteType, start, exact, indent) ==
    LET nextQuote == IndexOf(string, quoteType, start)
        nextBreak == IndexOf(string, "\n", start)
    IN  IF ~exact /\ nextQuote = -1
        THEN <<IF nextBreak = -1 THEN Len(string) ELSE nextBreak, FALSE>>
        ELSE <<nextQuote, TRUE>>

\* findProbableEndOfQuotedScalar(string, quoteType, start, exact, indent):
\* <<position, exact>>
RECURSIVE findProbableEndOfQuotedScalar(_, _, _, _, _)
findProbableEndOfQuotedScalar(string, quoteType, start, exact, indent) ==
    LET nextQuote == IndexOf(string, quoteType, start)
        nextBreak == IndexOf(string, "\n", start)
        nextLine == Slice(string, nextBreak + 1, nextBreak + 100)
        lineEnds == /\ nextBreak > -1
                    /\ (nextQuote = -1 \/ nextQuote > nextBreak)
                    /\ lineAfterQuotedScalar(nextLine) >= 0
                    /\ lineAfterQuotedScalar(nextLine) <= indent
    IN  IF ~exact /\ nextBreak = -1 /\ nextQuote = -1
        THEN <<Len(string), FALSE>>
        ELSE IF ~exact /\ lineEnds
        THEN <<nextBreak, FALSE>>
        ELSE IF ~exact /\ nextBreak > -1 /\ nextQuote > nextBreak
        THEN findProbableEndOfQuotedScalar(string, quoteType, nextBreak + 1,
                                           exact, indent)
        ELSE IF nextQuote = -1
        THEN <<-1, TRUE>>
        ELSE IF quoteType = "'"
        THEN IF At(string, nextQuote + 1) # "'"
             THEN <<nextQuote, TRUE>>
             ELSE findProbableEndOfQuotedScalar(string, quoteType,
                                                nextQuote + 2, exact, indent)
        ELSE IF TrailingBackslashes(Slice(string, start, nextQuote)) % 2 = 0
             THEN <<nextQuote, TRUE>>
             ELSE findProbableEndOfQuotedScalar(string, quoteType,
                                                nextQuote + 1, exact, indent)

\* findNextNonSpace(string, start)
RECURSIVE findNextNonSpace(_, _)
findNextNonSpace(string, start) ==
    IF start >= Len(string) THEN -1
    ELSE IF string[start + 1] \notin {" ", "\t"} THEN start
    ELSE findNextNonSpace(string, start + 1)

\* isSimpleEscape(charCode), on the character itself
isSimpleEscape(c) ==
    c \in {"0", "a", "b", "t", "\t", "n", "v", "f", "r", "e", " ", "\"", "/",
           "\\", "N", "_", "L", "P"}

\* isHexDigit(charCode), on the character itself
isHexDigit(c) ==
    c \in {"0", "1", "2", "3", "4", "5", "6", "7", "8", "9",
           "a", "b", "c", "d", "e", "f", "A", "B", "C", "D", "E", "F"}

\* isHexEscape(string, start)
isHexEscape(string, start) ==
    LET typeCode == At(string, start)
        end == IF typeCode = "x" THEN start + 2
               ELSE IF typeCode = "u" THEN start + 4
               ELSE IF typeCode = "U" THEN start + 8 ELSE 0
    IN  /\ end # 0
        /\ \A i \in (start + 1)..end : isHexDigit(At(string, i))

\* The length of the match of unquotedVariablePattern at i, 0 when there is
\* none: /^\{\{\s*\w+\s*\}\}/
unquotedVariableMatch(s, i) ==
    LET a == i + 2 + SpaceRun(s, i + 2)
        b == a + WordRun(s, a)
        c == b + SpaceRun(s, b)
    IN  IF /\ At(s, i) = "{" /\ At(s, i + 1) = "{"
           /\ b > a
           /\ At(s, c) = "}" /\ At(s, c + 1) = "}"
        THEN c + 2 - i ELSE 0

\* The length of the match of simpleSequence that starts at the [ at i:
\* /\[[^\]'"]*/g
RECURSIVE simpleSequenceRun(_, _)
simpleSequenceRun(s, i) ==
    IF i < Len(s) /\ s[i + 1] \notin {"]", "'", "\""}
    THEN 1 + simpleSequenceRun(s, i + 1) ELSE 0

simpleSequenceLength(s, i) == 1 + simpleSequenceRun(s, i + 1)

\* The characters nonPrintablePattern's first alternative lists.
IsControl(c) == c \in {"CTL", "CTM"}
IsHighSurrogate(c) == c = "HI"
IsLowSurrogate(c) == c = "LO"

\* The length of the match of nonPrintablePattern that starts at i, 0 when
\* there is none.  The third alternative takes the character in front of an
\* unpaired low surrogate into the match.
nonPrintableLengthAt(s, i) ==
    IF i >= Len(s) THEN 0
    ELSE IF IsControl(At(s, i)) THEN 1
    ELSE IF IsHighSurrogate(At(s, i)) /\ ~IsLowSurrogate(At(s, i + 1)) THEN 1
    ELSE IF ~IsHighSurrogate(At(s, i)) /\ IsLowSurrogate(At(s, i + 1)) THEN 2
    ELSE IF i = 0 /\ IsLowSurrogate(At(s, i)) THEN 1
    ELSE 0

\* nonPrintablePattern.exec(s) with lastIndex: the index of the next match at
\* or after lastIndex, -1 when there is none.
RECURSIVE nonPrintableExec(_, _)
nonPrintableExec(s, lastIndex) ==
    IF lastIndex >= Len(s) THEN -1
    ELSE IF nonPrintableLengthAt(s, lastIndex) > 0 THEN lastIndex
    ELSE nonPrintableExec(s, lastIndex + 1)


(***************************************************************************)
(* lint: the session.  A session record S holds what the listener mutates: *)
(* se (stateEditor), fe (fixedEditor), input (state.input) and issues.     *)
(* An issue is [level, reason, detail, position, applied]: position is     *)
(* mark.position; applied is a ghost that records that the repair of this  *)
(* issue was spliced into the fixed buffer: that fixedEditor.splice was     *)
(* called for it with characters to remove or to insert.                   *)
(***************************************************************************)
Issue(level, reason, detail, position, applied) ==
    [level |-> level, reason |-> reason, detail |-> detail,
     position |-> position, applied |-> applied]

\* error.level = fix ? 'fixed' : base
IssueLevel(fixing, base) == IF fixing THEN "fixed" ELSE base

\* stateEditor.markOriginalPosition(position, filename).position
markOriginalPosition(ed, position) == OriginalPosition(ed, position)

\* spliceState(state, position, remove, insert)
spliceState(S, position, remove, insert) ==
    LET se == Splice(S.se, position, remove, insert)
    IN  [S EXCEPT !.se = se, !.input = se.value \o <<NUL>>]

\* fixedPositionFromState(statePosition)
fixedPositionFromState(S, statePosition) ==
    CurrentPosition(S.fe, OriginalPosition(S.se, statePosition))

\* fixedEditor.splice(position, remove, insert) when fixing, else nothing
spliceFixed(S, fixing, position, remove, insert) ==
    IF fixing THEN [S EXCEPT !.fe = Splice(S.fe, position, remove, insert)]
    ELSE S

pushIssue(S, issue) == [S EXCEPT !.issues = Append(S.issues, issue)]

\* The non-printable pre-pass: the while loop over nonPrintablePattern.exec.
RECURSIVE PrepassLoop(_, _, _, _)
PrepassLoop(S, lastIndex, fixing, removing) ==
    LET position == nonPrintableExec(S.se.value, lastIndex)
        length == nonPrintableLengthAt(S.se.value, position)
        error == Issue(IssueLevel(fixing /\ removing, "error"), "nonprintable",
                       At(S.se.value, position),
                       markOriginalPosition(S.se, position),
                       fixing /\ removing)
        S1 == spliceFixed(S, fixing /\ removing,
                          fixedPositionFromState(S, position), 1, <<>>)
        S2 == [S1 EXCEPT !.se = Splice(S.se, position, 1, <<>>)]
    IN  IF position = -1 THEN S
        ELSE PrepassLoop(pushIssue(S2, error), position + length,
                         fixing, removing)

\* What yaml.loadAll makes of its input: a final line break when the text has
\* none, then the sentinel.
ParserInput(text) ==
    (IF text # <<>> /\ text[Len(text)] # "\n" THEN text \o <<"\n">> ELSE text)
        \o <<NUL>>

\* One pass of the quoted-scalar loop of the open handler.  L holds the
\* loop's variables; L.running is FALSE once the loop is left.  QuotedFound
\* is the pass once the oracle has answered.
QuotedFound(S, L, fixing, found) ==
    LET position == found[1]
        exact == found[2]
        \* the scalar has no end quote
        fullString == Slice(S.input, L.nextTokenStart, position)
        prefix == IF L.unescapedCount % 2 = 0 THEN <<>> ELSE <<"\"", "\\">>
        replacement == prefix \o fullString \o <<"\"">>
        fixedStart == fixedPositionFromState(S, L.nextTokenStart)
        fixedPosition == fixedPositionFromState(S, position)
        noEnd == Issue(IssueLevel(fixing, "error"), "no end quote", "",
                       markOriginalPosition(S.se, position), fixing)
        \* an unescaped quote inside the scalar
        escape == IF L.quoteType = "'" THEN <<"'">> ELSE <<"\\">>
        unescaped == Issue(IssueLevel(fixing, "error"), "unescaped quote", "",
                           markOriginalPosition(S.se, position), fixing)
    IN  IF ~exact
        THEN [S |-> spliceState(
                        spliceFixed(pushIssue(S, noEnd), fixing, fixedStart,
                                    fixedPosition - fixedStart, replacement),
                        L.nextTokenStart, Len(fullString), replacement),
              L |-> [L EXCEPT !.startPosition = position + Len(prefix)]]
        ELSE IF position = -1
                \/ tokensAfterString(SliceFrom(S.input, position + 1))
        THEN [S |-> S,
              L |-> [L EXCEPT !.running = FALSE, !.startPosition = -1,
                              !.endPosition = position]]
        ELSE [S |-> spliceState(
                        spliceFixed(pushIssue(S, unescaped), fixing,
                                    fixedPositionFromState(S, position), 0,
                                    escape),
                        position, 0, escape),
              L |-> [L EXCEPT !.startPosition = position + 2,
                              !.unescapedCount = L.unescapedCount + 1]]

QuotedStep(S, L, fixing) ==
    QuotedFound(S, L, fixing,
                findProbableEndOfQuotedScalar(S.input, L.quoteType,
                    L.startPosition, L.quoteType # "\"", L.lineIndent))

\* The scan for invalid escape sequences in a double-quoted scalar.
RECURSIVE EscapeScan(_, _, _, _)
EscapeScan(S, from, endPosition, fixing) ==
    LET position == IndexOf(S.input, "\\", from)
        error == Issue(IssueLevel(fixing, "error"), "invalid escape",
                       At(S.input, position + 1),
                       markOriginalPosition(S.se, position), fixing)
    IN  IF ~(from > -1 /\ from < endPosition) THEN S
        ELSE IF position = -1 \/ position >= endPosition THEN S
        ELSE IF isSimpleEscape(At(S.input, position + 1))
                \/ isHexEscape(S.input, position + 1)
        THEN EscapeScan(S, position + 2, endPosition, fixing)
        ELSE EscapeScan(
                 spliceState(
                     spliceFixed(pushIssue(S, error), fixing,
                                 fixedPositionFromState(S, position), 1, <<>>),
                     position, 1, <<>>),
                 position, endPosition, fixing)

\* The loop that wraps a scalar in double quotes (the @ and the [ repair):
\* [S, wrapped].  WrapLoop is one pass from the call of the oracle on,
\* WrapFound what follows once the oracle has answered, WrapEscaped what
\* follows the escaping of a quote, WrapScalar the wrapping itself.
WrapScalar(S, nextTokenStart, scalar, fixing) ==
    [S |-> spliceState(
               spliceFixed(S, fixing,
                           fixedPositionFromState(S, nextTokenStart),
                           Len(scalar), <<"\"">> \o scalar \o <<"\"">>),
               nextTokenStart, Len(scalar), <<"\"">> \o scalar \o <<"\"">>),
     wrapped |-> TRUE]

RECURSIVE WrapLoop(_, _, _, _, _)
WrapEscaped(S, nextTokenStart, startPosition, lineIndent, fixing) ==
    IF tokensAfterString(SliceFrom(S.input, startPosition))
    THEN WrapScalar(S, nextTokenStart,
                    Slice(S.input, nextTokenStart, startPosition), fixing)
    ELSE WrapLoop(S, nextTokenStart, startPosition, lineIndent, fixing)

WrapFound(S, nextTokenStart, lineIndent, fixing, found) ==
    IF found[1] = -1 THEN [S |-> S, wrapped |-> FALSE]
    ELSE IF found[2]
    THEN WrapEscaped(
             spliceState(
                 spliceFixed(S, fixing, fixedPositionFromState(S, found[1]),
                             0, <<"\\">>),
                 found[1], 0, <<"\\">>),
             nextTokenStart, found[1] + 2, lineIndent, fixing)
    ELSE WrapScalar(S, nextTokenStart,
                    Slice(S.input, nextTokenStart, found[1]), fixing)

WrapLoop(S, nextTokenStart, startPosition, lineIndent, fixing) ==
    WrapFound(S, nextTokenStart, lineIndent, fixing,
              findProbableEndOfQuotedScalar(S.input, "\"", startPosition,
                                            FALSE, lineIndent))

\* The detectors of the open handler that follow the quoted-scalar one: the
\* unquoted variable, the @ sign and the leading [, each behind its threshold.
\* R is [S, T], T holding the thresholds.
UnquotedVariableFix(S, nextTokenStart, length, quoted) ==
    spliceState(
        spliceFixed(S, TRUE, fixedPositionFromState(S, nextTokenStart),
                    length, quoted),
        nextTokenStart, length, quoted)

UnquotedVariableFound(R, nextTokenStart, length, fixing) ==
    [S |-> IF fixing
           THEN UnquotedVariableFix(
                    pushIssue(R.S,
                        Issue("fixed", "unquoted variable", "",
                              markOriginalPosition(R.S.se, nextTokenStart),
                              TRUE)),
                    nextTokenStart, length,
                    <<"'">> \o Slice(R.S.input, nextTokenStart,
                                     nextTokenStart + length) \o <<"'">>)
           ELSE pushIssue(R.S,
                    Issue("warning", "unquoted variable", "",
                          markOriginalPosition(R.S.se, nextTokenStart),
                          FALSE)),
     T |-> [R.T EXCEPT !.unquotedVariablePosition = nextTokenStart]]

\* The detector without its threshold: it answers every open event.
UnquotedVariableEveryOpen(R, position, nextTokenStart, nextTokenChar, fixing) ==
    IF /\ nextTokenChar = "{"
       /\ unquotedVariableMatch(R.S.input, nextTokenStart) > 0
    THEN UnquotedVariableFound(R, nextTokenStart,
             unquotedVariableMatch(R.S.input, nextTokenStart), fixing)
    ELSE R

UnquotedVariable(R, position, nextTokenStart, nextTokenChar, fixing) ==
    IF /\ nextTokenChar = "{"
       /\ position > R.T.unquotedVariablePosition
       /\ unquotedVariableMatch(R.S.input, nextTokenStart) > 0
    THEN UnquotedVariableFound(R, nextTokenStart,
             unquotedVariableMatch(R.S.input, nextTokenStart), fixing)
    ELSE R

\* The issue of a wrapping repair, pushed where the source pushes it (the
\* wrapping loop pushes no issue itself) with the level the loop leaves it.
Wrapped(W, T, base, reason, mark, fixing) ==
    [S |-> pushIssue(W.S,
               Issue(IF fixing /\ W.wrapped THEN "fixed" ELSE base, reason,
                     "", mark, fixing /\ W.wrapped)),
     T |-> T]

AtSign(R, position, nextTokenStart, nextTokenChar, lineIndent, fixing) ==
    IF position > R.T.atSignPosition /\ nextTokenChar = "@"
    THEN Wrapped(WrapLoop(R.S, nextTokenStart, nextTokenStart, lineIndent,
                          fixing),
                 [R.T EXCEPT !.atSignPosition = nextTokenStart],
                 "warning", "at sign",
                 markOriginalPosition(R.S.se, nextTokenStart), fixing)
    ELSE R

LeadingBracketAt(R, nextTokenStart, sequenceEnd, lineIndent, fixing) ==
    IF /\ At(R.S.input, sequenceEnd) = "]"
       /\ ~tokensAfterString(SliceFrom(R.S.input, sequenceEnd + 1))
    THEN Wrapped(WrapLoop(R.S, nextTokenStart, nextTokenStart, lineIndent,
                          fixing),
                 R.T, "error", "leading bracket",
                 markOriginalPosition(R.S.se, nextTokenStart), fixing)
    ELSE R

LeadingBracket(R, nextTokenStart, nextTokenChar, lineIndent, fixing) ==
    IF nextTokenStart > R.T.lastTokenPosition /\ nextTokenChar = "["
    THEN LeadingBracketAt(R, nextTokenStart,
             nextTokenStart + simpleSequenceLength(R.S.input, nextTokenStart),
             lineIndent, fixing)
    ELSE R

LastToken(R, nextTokenStart) ==
    [S |-> R.S, T |-> [R.T EXCEPT !.lastTokenPosition = nextTokenStart]]

OpenRest(S, T, position, nextTokenStart, nextTokenChar, lineIndent, fixing) ==
    LastToken(
        LeadingBracket(
            AtSign(
                UnquotedVariable([S |-> S, T |-> T], position,
                                 nextTokenStart, nextTokenChar, fixing),
                position, nextTokenStart, nextTokenChar, lineIndent, fixing),
            nextTokenStart, nextTokenChar, lineIndent, fixing),
        nextTokenStart)

\* The deficient-indentation repair of the close handler: the for loop over
\* tokenIndentWarnings (indices into issues).  threw is TRUE when
\* ' '.repeat() is called with a negative count.
RECURSIVE IndentLoop(_, _, _)
IndentLoop(S, warnings, indent) ==
    LET w == Head(warnings)
        position == CurrentPosition(S.fe, S.issues[w].position)
        lineStart == LastIndexOf(S.fe.value, "\n", position) + 1
        existingIndent == position - lineStart
        S1 == [S EXCEPT
                 !.fe = Splice(S.fe, position, 0,
                               Repeat(" ", indent - existingIndent)),
                 !.issues[w].level = "fixed",
                 !.issues[w].applied =
                     S.issues[w].applied \/ indent - existingIndent > 0]
    IN  IF warnings = <<>> THEN [S |-> S, threw |-> FALSE]
        ELSE IF lineStart > 0
        THEN IF indent - existingIndent < 0
             THEN [S |-> S, threw |-> TRUE]
             ELSE IndentLoop(S1, Tail(warnings), indent)
        ELSE IndentLoop(S, Tail(warnings), indent)

\* The close handler: [S, threw, returned], returned being the early return
\* of the anchor warning.
CloseHandler(S, kind, entityAnchor, previous, indentOfToken, warnings, fixing) ==
    LET warning == Issue("warning", "entity anchor", "",
                         markOriginalPosition(S.se, previous), FALSE)
    IN  IF entityAnchor
        THEN [S |-> pushIssue(S, warning), threw |-> FALSE, returned |-> TRUE]
        ELSE IF fixing /\ kind = "scalar" /\ warnings # <<>>
        THEN [returned |-> FALSE] @@ IndentLoop(S, warnings, indentOfToken + 2)
        ELSE [S |-> S, threw |-> FALSE, returned |-> FALSE]

\* The catch block of lint: what a marked parser error at mark.position adds
\* to the issues.  lineStart is mark.position - mark.column.
CatchMarked(S, text, reasonIsBadIndentation, position, lineStart) ==
    LET indent == Slice(text, lineStart,
                        lineStart + SpaceRun(SliceFrom(text, lineStart), 0))
        mixed == /\ reasonIsBadIndentation
                 /\ \E i \in 1..Len(indent) : indent[i] = " "
                 /\ \E i \in 1..Len(indent) : indent[i] = "\t"
        issue == Issue("error",
                       IF mixed THEN "mixed spaces and tabs"
                       ELSE IF reasonIsBadIndentation THEN "bad indentation"
                       ELSE "parser error",
                       "", position, FALSE)
    IN  IF At(text, position) = "@" THEN S ELSE pushIssue(S, issue)

(***************************************************************************)
(* The base parser, yaml.loadAll, as lint meets it: it reads state.input   *)
(* from state.position, calls the listener when it opens and closes a node *)
(* and onWarning when a continuation line of a flow scalar is indented too *)
(* little, and raises an exception where it cannot go on.                  *)
(***************************************************************************)
\* The index at which the line of position p starts.
LineStart(s, p) == IF p <= 0 THEN 0 ELSE LastIndexOf(s, "\n", p - 1) + 1

RECURSIVE BlankRun(_, _)
BlankRun(s, i) ==
    IF i < Len(s) /\ s[i + 1] = " " THEN 1 + BlankRun(s, i + 1) ELSE 0

\* state.lineIndent: the spaces the line of position p starts with.
LineIndentAt(s, p) == BlankRun(s, LineStart(s, p))

\* The length of an anchor at i whose name entityAnchor matches, else 0.
AnchorLength(s, i) ==
    LET w == WordRun(s, i + 1)
    IN  IF At(s, i) = "&" /\ w > 0 /\ At(s, i + 1 + w) = ";"
        THEN w + 2 ELSE 0

\* Where the parser may stand when it opens its next node, coming from p:
\* at p, behind the indicator at p, or at the token that follows them.
Indicators == {"-", ":", "[", "]", ","}

RECURSIVE SkipWhite(_, _)
SkipWhite(s, i) ==
    IF i < Len(s) - 1 /\ IsSpace(At(s, i)) THEN SkipWhite(s, i + 1) ELSE i

OpenPositions(s, p) ==
    LET behind == IF At(s, p) \in Indicators THEN p + 1 ELSE p
    IN  {p, behind, SkipWhite(s, behind)}

\* The indentation the parser demands of the continuation lines of a flow
\* scalar that starts at i: one more than that of the block it belongs to.
FlowIndent(s, i) ==
    LET lineStart == LineStart(s, i)
        dashes == {j \in lineStart..(i - 1) : At(s, j) = "-"}
        isValue == \E j \in lineStart..(i - 1) : At(s, j) = ":"
        lastDash == CHOOSE j \in dashes : \A k \in dashes : k <= j
    IN  IF dashes # {} THEN lastDash - lineStart + 1
        ELSE IF isValue THEN LineIndentAt(s, i) + 1
        ELSE 0

\* The index of the quote that ends the quoted scalar read from i (the
\* character after the opening quote), -1 when the input ends first.
RECURSIVE QuoteEnd(_, _, _)
QuoteEnd(s, quoteType, i) ==
    IF i >= Len(s) \/ At(s, i) = NUL THEN -1
    ELSE IF quoteType = "\"" /\ At(s, i) = "\\"
    THEN QuoteEnd(s, quoteType, i + 2)
    ELSE IF quoteType = "'" /\ At(s, i) = "'" /\ At(s, i + 1) = "'"
    THEN QuoteEnd(s, quoteType, i + 2)
    ELSE IF At(s, i) = quoteType THEN i
    ELSE QuoteEnd(s, quoteType, i + 1)

\* The first character at or after from, up to the index to, that begins the
\* text of a continuation line indented by less than flowIndent: there the
\* parser warns of deficient indentation.  -1 when there is none.
RECURSIVE NextDeficient(_, _, _, _)
NextDeficient(s, from, to, flowIndent) ==
    LET lineStart == LineStart(s, from)
    IN  IF from > to THEN -1
        ELSE IF /\ lineStart > 0
                /\ ~IsSpace(At(s, from))
                /\ \A j \in lineStart..(from - 1) : At(s, j) \in {" ", "\t"}
                /\ BlankRun(s, lineStart) < flowIndent
        THEN from
        ELSE NextDeficient(s, from + 1, to, flowIndent)

\* Where the parser stands after a plain scalar that starts at i; inside a
\* flow sequence the scalar also ends at a flow indicator.
RECURSIVE PlainEnd(_, _, _)
PlainEnd(s, i, inFlow) ==
    IF i >= Len(s) \/ At(s, i) \in {"\n", NUL} THEN i
    ELSE IF At(s, i) = ":" /\ (IsSpace(At(s, i + 1)) \/ At(s, i + 1) = NUL)
    THEN i
    ELSE IF inFlow /\ At(s, i) \in {"[", "]", ","} THEN i
    ELSE PlainEnd(s, i + 1, inFlow)

\* Whether node n is a flow sequence: the parser closes it behind its ].
IsFlowSequence(s, n) == n.kind = "other" /\ At(s, n.start) = "["

\* The node the parser reads after an open event at position p.
NodeAt(s, p) ==
    LET first == findNextNonSpace(s, p)
        anchor == AnchorLength(s, first)
        start == IF anchor > 0 THEN findNextNonSpace(s, first + anchor)
                 ELSE first
        quoted == At(s, start) \in {"'", "\""}
    IN  [anchor |-> anchor > 0,
         kind |-> IF quoted THEN "quoted" ELSE "other",
         start |-> start,
         flowIndent |-> FlowIndent(s, start),
         position |-> IF anchor > 0 THEN start ELSE p]

\* For the quoted scalar node n: the index of its closing quote, and the next
\* deficient indentation warning the parser has still to give.
NodeQuoteEnd(s, n) == QuoteEnd(s, At(s, n.start), n.start + 1)

NodeWarning(s, n, reached) ==
    LET end == NodeQuoteEnd(s, n)
    IN  NextDeficient(s, Max(reached, n.start) + 1,
                      IF end = -1 THEN Len(s) - 2 ELSE end, n.flowIndent)

(***************************************************************************)
(* Spec: one call of lint(yamlText, {fix, removeInvalidCharacters}), the   *)
(* parser delivering its events one at a time.                             *)
(***************************************************************************)
Session ==
    [se |-> stateEditor, fe |-> fixedEditor, input |-> input,
     issues |-> issues]

Thresholds ==
    [unquotedVariablePosition |-> unquotedVariablePosition,
     atSignPosition |-> atSignPosition,
     lastTokenPosition |-> lastTokenPosition]

SetSession(S) ==
    /\ stateEditor' = S.se
    /\ fixedEditor' = S.fe
    /\ input' = S.input
    /\ issues' = S.issues

SetThresholds(T) ==
    /\ unquotedVariablePosition' = T.unquotedVariablePosition
    /\ atSignPosition' = T.atSignPosition
    /\ lastTokenPosition' = T.lastTokenPosition

\* The texts lint is called with: a few fragments in a row.
RECURSIVE Concats(_, _)
Concats(F, n) ==
    IF n = 0 THEN {<<>>}
    ELSE LET shorter == Concats(F, n - 1)
         IN  shorter \cup {t \o f : t \in shorter, f \in F}

QuoteFrags == {<<"\"">>, <<"a">>, <<"\n">>, <<"\n", "\t", "\t">>, <<"\t">>}
CharFrags == {<<"@">>, <<"a">>, <<"CTL">>, <<"LO">>}
AnchorFrags == {<<"&", "a", ";", " ">>, <<"[">>, <<"a", "]">>}
Prefixes == {<<>>, <<"a", ":", " ">>}

LintTexts ==
    {pre \o t : pre \in Prefixes, t \in Concats(QuoteFrags, MaxFrags)}
        \cup Concats(CharFrags, MaxFrags)
        \cup Concats(AnchorFrags, MaxFrags)

\* <<fix, removeInvalidCharacters>>
LintOptions == {<<FALSE, TRUE>>, <<TRUE, TRUE>>, <<TRUE, FALSE>>}

\* The state of lint at its first statement.
LintStart(text, fixing, removing) ==
    /\ yamlText = text /\ fix = fixing /\ removeInvalidCharacters = removing
    /\ stateEditor = NewEditor(text) /\ fixedEditor = NewEditor(text)
    /\ input = <<>> /\ issues = <<>>
    /\ unquotedVariablePosition = -1 /\ atSignPosition = -1
    /\ lastTokenPosition = -1
    /\ tokenIndent = 0 /\ tokenIndentWarnings = <<>>
    /\ previousPosition = -1
    /\ pc = "start" /\ parserPosition = 0 /\ nodes = <<>> /\ loop = <<>>
    /\ nOpens = 0 /\ thrownBy = "nobody"

Init ==
    /\ \E text \in LintTexts, options \in LintOptions :
           LintStart(text, options[1], options[2])
    /\ runNumber = 1 /\ firstFixed = <<>>
    /\ EditorStart /\ ScanIdle /\ PageIdle /\ FileIdle /\ BatchIdle

\* lint up to the call of yaml.loadAll: the non-printable pre-pass.  The
\* parser then takes stateEditor.value as its input.
Prepass ==
    /\ pc = "start"
    /\ \E S \in {PrepassLoop(Session, 0, fix, removeInvalidCharacters)} :
           /\ SetSession([S EXCEPT !.input = ParserInput(S.se.value)])
           /\ parserPosition' = BlankRun(ParserInput(S.se.value), 0)
    /\ pc' = "parse"
    /\ UNCHANGED <<yamlText, fix, removeInvalidCharacters, thresholdVars,
                   tokenIndent, tokenIndentWarnings, previousPosition, nodes,
                   loop, nOpens, thrownBy, runNumber, firstFixed, editorVars,
                   pageVars, fileVars, batchVars, scanVars>>

\* The parser has read the node of the document and finds more text on its
\* line that is no mapping value: it opens no node there, it raises an error.
TrailingText ==
    /\ nodes = <<>>
    /\ nOpens > 0
    /\ ~IsSpace(At(input, parserPosition))
    /\ At(input, parserPosition) \notin {NUL, ":"}

\* listener('open', state) with state.position = p.
ParserOpen ==
    /\ pc = "parse"
    /\ ~TrailingText
    /\ nOpens < MaxOpens
    /\ Len(nodes) < MaxDepth
    /\ nodes # <<>> => nodes[Len(nodes)].kind # "quoted"
    /\ \E p \in OpenPositions(input, parserPosition) :
        \* a node has one anchor: behind the anchor of the node it is
        \* reading the parser opens no node at a second anchor
        /\ (/\ nodes # <<>>
            /\ nodes[Len(nodes)].anchor
            /\ AnchorLength(input, findNextNonSpace(input, p)) > 0)
               => p > nodes[Len(nodes)].position
        /\ LET nextTokenStart == findNextNonSpace(input, p)
               nextTokenChar == At(input, nextTokenStart)
               lineIndent == LineIndentAt(input, p)
           IN  /\ tokenIndent' = lineIndent
               /\ tokenIndentWarnings' = <<>>
               /\ nOpens' = nOpens + 1
               /\ IF nextTokenChar \in {"'", "\""}
                  THEN /\ pc' = "quoted"
                       /\ loop' = [quoteType |-> nextTokenChar,
                                   startPosition |-> nextTokenStart + 1,
                                   endPosition |-> -1,
                                   unescapedCount |-> 0,
                                   nextTokenStart |-> nextTokenStart,
                                   lineIndent |-> lineIndent,
                                   running |-> TRUE,
                                   iterations |-> 0]
                       /\ parserPosition' = p
                       /\ UNCHANGED <<sessionVars, thresholdVars,
                                      previousPosition, nodes>>
                  ELSE /\ \E R \in {OpenRest(Session, Thresholds, p,
                                             nextTokenStart, nextTokenChar,
                                             lineIndent, fix)} :
                            /\ SetSession(R.S)
                            /\ SetThresholds(R.T)
                            /\ \E node \in {NodeAt(R.S.input, p)} :
                                 /\ nodes' = Append(nodes, node)
                                 /\ parserPosition' = node.position
                       /\ previousPosition' = p
                       /\ UNCHANGED <<pc, loop>>
    /\ UNCHANGED <<yamlText, fix, removeInvalidCharacters, thrownBy,
                   runNumber, firstFixed, editorVars,
                   pageVars, fileVars, batchVars, scanVars>>

\* The open handler from the end of the quoted-scalar loop on: the scan for
\* invalid escapes, then the other detectors.
AfterQuoted(S, L, T, position, fixing) ==
    OpenRest(IF L.endPosition > -1 /\ L.quoteType = "\""
             THEN EscapeScan(S, L.nextTokenStart, L.endPosition, fixing)
             ELSE S,
             T, position, L.nextTokenStart, L.quoteType, L.lineIndent, fixing)

\* One pass of the quoted-scalar loop of the open handler; the pass that
\* leaves the loop also runs the rest of the handler.
QuotedLoop ==
    /\ pc = "quoted"
    /\ loop.iterations < MaxIterations
    /\ \E R \in {QuotedStep(Session, loop, fix)} :
        IF R.L.running
        THEN /\ SetSession(R.S)
             /\ loop' = [R.L EXCEPT !.iterations = loop.iterations + 1]
             /\ UNCHANGED <<thresholdVars, previousPosition, pc,
                            parserPosition, nodes>>
        ELSE /\ \E rest \in {AfterQuoted(R.S, R.L, Thresholds,
                                         parserPosition, fix)} :
                  /\ SetSession(rest.S)
                  /\ SetThresholds(rest.T)
                  /\ \E node \in {NodeAt(rest.S.input, parserPosition)} :
                       /\ nodes' = Append(nodes, node)
                       /\ parserPosition' = node.position
             /\ previousPosition' = parserPosition
             /\ pc' = "parse"
             /\ loop' = <<>>
    /\ UNCHANGED <<yamlText, fix, removeInvalidCharacters, tokenIndent,
                   tokenIndentWarnings, nOpens, thrownBy, runNumber,
                   firstFixed, editorVars, pageVars, fileVars, batchVars, scanVars>>

\* onWarning(warning): the parser warns of deficient indentation inside the
\* quoted scalar it is reading.
ParserWarning ==
    /\ pc = "parse"
    /\ nodes # <<>>
    /\ LET node == nodes[Len(nodes)]
           at == NodeWarning(input, node, parserPosition)
           warning == Issue("warning", "deficient indentation", "",
                            markOriginalPosition(stateEditor, at), FALSE)
       IN  /\ node.kind = "quoted"
           /\ at # -1
           /\ issues' = Append(issues, warning)
           /\ tokenIndentWarnings' =
                  Append(tokenIndentWarnings, Len(issues) + 1)
           /\ parserPosition' = at
    /\ UNCHANGED <<yamlText, fix, removeInvalidCharacters, stateEditor,
                   fixedEditor, input, thresholdVars, tokenIndent,
                   previousPosition, pc, nodes, loop, nOpens, thrownBy,
                   runNumber, firstFixed, editorVars,
                   pageVars, fileVars, batchVars, scanVars>>

\* listener('close', state): the parser has read the node it opened last.
ParserClose ==
    /\ pc = "parse"
    /\ nodes # <<>>
    /\ LET node == nodes[Len(nodes)]
           end == NodeQuoteEnd(input, node)
           bracket == findNextNonSpace(input,
                                       Max(parserPosition, node.start + 1))
           inFlow == /\ Len(nodes) > 1
                     /\ IsFlowSequence(input, nodes[Len(nodes) - 1])
       IN  /\ node.kind = "quoted" =>
                  end # -1 /\ NodeWarning(input, node, parserPosition) = -1
           /\ IsFlowSequence(input, node) => At(input, bracket) = "]"
           /\ \E kind \in {"scalar", "other"} :
               /\ node.kind = "quoted" => kind = "scalar"
               /\ IsFlowSequence(input, node) => kind = "other"
               /\ LET after == IF node.kind = "quoted" THEN end + 1
                               ELSE IF IsFlowSequence(input, node)
                               THEN bracket + 1
                               ELSE IF parserPosition > node.start
                               THEN parserPosition
                               ELSE IF At(input, node.start) = "@"
                               THEN node.start
                               ELSE PlainEnd(input, node.start, inFlow)
                  IN  /\ \E R \in {CloseHandler(Session, kind, node.anchor,
                                        previousPosition, tokenIndent,
                                        tokenIndentWarnings, fix)} :
                           /\ SetSession(R.S)
                           /\ previousPosition' =
                                  IF R.returned \/ R.threw
                                  THEN previousPosition ELSE after
                           /\ pc' = IF R.threw THEN "thrown" ELSE "parse"
                           /\ thrownBy' =
                                  IF R.threw THEN "listener" ELSE thrownBy
                      /\ parserPosition' = after
    /\ nodes' = SubSeq(nodes, 1, Len(nodes) - 1)
    /\ UNCHANGED <<yamlText, fix, removeInvalidCharacters, thresholdVars,
                   tokenIndent, tokenIndentWarnings, loop, nOpens, runNumber,
                   firstFixed, editorVars, pageVars, fileVars, batchVars, scanVars>>

\* The parser raises an exception with a mark; the catch block of lint makes
\* an issue of it and lint returns.
ParserError ==
    /\ pc = "parse"
    /\ \E reasonIsBadIndentation \in BOOLEAN :
        LET reading == nodes # <<>> /\ nodes[Len(nodes)].kind = "quoted"
            unended == reading /\ NodeQuoteEnd(input, nodes[Len(nodes)]) = -1
            at == IF unended THEN Len(input) - 1 ELSE parserPosition
            lineStart == LineStart(input, at)
        IN  /\ reading => unended
            \* outside a quoted scalar the parser stops at a character it
            \* cannot read, or at text it finds behind the node it has read
            \* or between the entries of a flow sequence
            /\ ~reading =>
                   /\ ~IsSpace(At(input, at)) /\ At(input, at) # NUL
                   /\ IF IsControl(At(input, at)) THEN TRUE
                      ELSE IF IsLowSurrogate(At(input, at)) THEN TRUE
                      ELSE IF nodes = <<>> THEN TrailingText
                      ELSE IsFlowSequence(input, nodes[Len(nodes)])
            /\ reasonIsBadIndentation =>
                   /\ ~reading
                   /\ lineStart < at
                   /\ \A j \in lineStart..(at - 1) : IsSpace(At(input, j))
            /\ reading =>
                   NodeWarning(input, nodes[Len(nodes)], parserPosition) = -1
            /\ SetSession(CatchMarked(Session, yamlText,
                                      reasonIsBadIndentation, at,
                                      LineStart(input, at)))
    /\ pc' = "done"
    /\ UNCHANGED <<yamlText, fix, removeInvalidCharacters, thresholdVars,
                   tokenIndent, tokenIndentWarnings, previousPosition,
                   parserPosition, nodes, loop, nOpens, thrownBy, runNumber,
                   firstFixed, editorVars, pageVars, fileVars, batchVars, scanVars>>

\* The parser raises an exception without a mark: the catch block throws it
\* again.
ParserThrow ==
    /\ pc = "parse"
    /\ nOpens = 0
    /\ pc' = "thrown"
    /\ thrownBy' = "parser"
    /\ UNCHANGED <<yamlText, fix, removeInvalidCharacters, sessionVars,
                   thresholdVars, tokenIndent, tokenIndentWarnings,
                   previousPosition, parserPosition, nodes, loop, nOpens,
                   runNumber, firstFixed, editorVars,
                   pageVars, fileVars, batchVars, scanVars>>

\* yaml.loadAll returns: the parser has read its whole input.
ParserFinish ==
    /\ pc = "parse"
    /\ nodes = <<>>
    /\ \A j \in parserPosition..(Len(input) - 1) :
           IsSpace(At(input, j)) \/ At(input, j) = NUL
    /\ pc' = "done"
    /\ UNCHANGED <<yamlText, fix, removeInvalidCharacters, sessionVars,
                   thresholdVars, tokenIndent, tokenIndentWarnings,
                   previousPosition, parserPosition, nodes, loop, nOpens,
                   thrownBy, runNumber, firstFixed, editorVars,
                   pageVars, fileVars, batchVars, scanVars>>

\* What lint returns as fixed: fix ? fixedEditor.value : null.
Fixed == IF fix THEN fixedEditor.value ELSE null

Next ==
    \/ Prepass
    \/ ParserOpen
    \/ QuotedLoop
    \/ ParserWarning
    \/ ParserClose
    \/ ParserError
    \/ ParserThrow
    \/ ParserFinish

Spec == Init /\ [][Next]_vars

(***************************************************************************)
(* SpecFixAgain: lint with fix, then lint with fix of the fixed output.    *)
(***************************************************************************)
AgainTexts ==
    {pre \o t : pre \in Prefixes, t \in Concats(QuoteFrags, MaxFrags - 1)}
        \cup Concats(CharFrags, MaxFrags - 1)

AgainInit ==
    /\ \E text \in AgainTexts, removing \in BOOLEAN :
           LintStart(text, TRUE, removing)
    /\ runNumber = 1 /\ firstFixed = <<>>
    /\ EditorStart /\ ScanIdle /\ PageIdle /\ FileIdle /\ BatchIdle

\* lint(fixed, {fix: true, removeInvalidCharacters}) once the first lint has
\* returned.
Recheck ==
    /\ pc = "done"
    /\ runNumber = 1
    /\ runNumber' = 2
    /\ firstFixed' = fixedEditor.value
    /\ yamlText' = fixedEditor.value
    /\ stateEditor' = NewEditor(fixedEditor.value)
    /\ fixedEditor' = NewEditor(fixedEditor.value)
    /\ input' = <<>> /\ issues' = <<>>
    /\ unquotedVariablePosition' = -1 /\ atSignPosition' = -1
    /\ lastTokenPosition' = -1
    /\ tokenIndent' = 0 /\ tokenIndentWarnings' = <<>>
    /\ previousPosition' = -1
    /\ pc' = "start" /\ parserPosition' = 0 /\ nodes' = <<>> /\ loop' = <<>>
    /\ nOpens' = 0 /\ thrownBy' = "nobody"
    /\ UNCHANGED <<fix, removeInvalidCharacters, editorVars,
                   pageVars, fileVars, batchVars, scanVars>>

AgainNext ==
    \/ Prepass
    \/ ParserOpen
    \/ QuotedLoop
    \/ ParserWarning
    \/ ParserClose
    \/ ParserError
    \/ ParserThrow
    \/ ParserFinish
    \/ Recheck

SpecFixAgain == AgainInit /\ [][AgainNext]_vars

(***************************************************************************)
(* SpecScalar: one call of lint on texts made of quotes, backslashes and   *)
(* line breaks, with and without a mapping key in front.                   *)
(***************************************************************************)
ScalarFrags == {<<"\"">>, <<"'">>, <<"\\">>, <<"a">>, <<"\n">>}

\* Double-quoted scalars made of escape sequences, and what follows them.
EscapeFrags ==
    {<<"\\", "'">>, <<"\\", "a">>, <<"\\", "\\">>, <<"\\", "x", "0">>,
     <<"\\", "x", "0", "1">>}
EscapeTails == {<<>>, <<"\n">>, <<"\n", "\\", "'", "\n">>}

EscapeTexts ==
    {<<"\"">> \o t \o <<"\"">> \o e :
        t \in Concats(EscapeFrags, MaxFrags - 1), e \in EscapeTails}

\* Plain scalars that start with an @.
AtFrags == {<<"@">>, <<"\"">>, <<"a">>, <<"\n">>}

AtTexts ==
    {pre \o <<"@">> \o t :
        pre \in Prefixes, t \in Concats(AtFrags, MaxFrags)}

\* Variable substitutions, quoted and not.
VarFrags ==
    {<<"{", "{", "a", "}", "}">>, <<"'">>, <<" ">>, <<"\n">>, <<"CTL">>}

VarTexts ==
    {pre \o t : pre \in Prefixes, t \in Concats(VarFrags, MaxFrags - 1)}

\* Entries the listener repairs, followed by an @ it cannot wrap.
CatchFrags ==
    {<<"\"", "a", "\n">>, <<"a", ":", " ">>, <<"@">>, <<"\n", "a">>,
     <<"{", "{", "a", "}", "}", "\n">>}

CatchTexts == Concats(CatchFrags, MaxFrags)

ScalarTexts ==
    {pre \o t : pre \in Prefixes, t \in Concats(ScalarFrags, MaxFrags)}
        \cup EscapeTexts \cup AtTexts \cup VarTexts \cup CatchTexts

ScalarInit ==
    /\ \E text \in ScalarTexts, options \in LintOptions :
           LintStart(text, options[1], options[2])
    /\ runNumber = 1 /\ firstFixed = <<>>
    /\ EditorStart /\ ScanIdle /\ PageIdle /\ FileIdle /\ BatchIdle

SpecScalar == ScalarInit /\ [][Next]_vars

(***************************************************************************)
(* SpecPage: every page of at most MaxLines lines is split and joined.     *)
(***************************************************************************)
\* The lines pages are made of (without their line break).
PageLines ==
    { <<"-", "-", "-">>, <<"-", "-", "-", " ">>, <<"a", ":">>, <<"a">>,
      <<"#">>, <<>> }

RECURSIVE JoinLines(_)
JoinLines(lines) ==
    IF lines = <<>> THEN <<>>
    ELSE IF Len(lines) = 1 THEN lines[1]
    ELSE lines[1] \o <<"\n">> \o JoinLines(Tail(lines))

\* Pages with and without a final line break.
Pages ==
    LET seqs == UNION {[1..n -> PageLines] : n \in 0..MaxLines}
    IN  {JoinLines(l) : l \in seqs} \cup {JoinLines(l) \o <<"\n">> : l \in seqs}

PageInit ==
    /\ pageText \in Pages
    /\ segments = <<>>
    /\ joined = <<>>
    /\ EditorStart /\ ScanIdle /\ LintIdle /\ FileIdle /\ BatchIdle

\* parsePage / lintFile: split the page, then join the two segments again.
PageSplitJoin ==
    /\ segments = <<>>
    /\ segments' = getPageSegments(pageText)
    /\ joined' = joinPageSegments(segments'[1], segments'[2])
    /\ UNCHANGED <<pageText, editorVars, lintVars, fileVars, batchVars, scanVars>>

PageNext == PageSplitJoin

SpecPage == PageInit /\ [][PageNext]_vars

(***************************************************************************)
(* SpecFile: one call of lintFile(filePath, content, options): the content *)
(* is split when the path ends in .md, lint checks the YAML text, and the  *)
(* fixed text is saved.                                                    *)
(***************************************************************************)
FileFrags == {<<"\"">>, <<"\n">>, <<"CTL">>, <<"a">>}

FileTexts ==
    {pre \o t : pre \in Prefixes, t \in Concats(FileFrags, MaxFrags - 1)}

\* Pages with a front-matter, and what lintFile is given as content.
FilePages ==
    {yamlDivider \o pre \o t \o <<"\n">> \o yamlDivider \o <<"a">> :
        pre \in Prefixes, t \in Concats(FileFrags, MaxFrags - 2)}

FileContents == FileTexts \cup FilePages

\* lintFile up to its call of lint.
FileInit ==
    /\ \E text \in FileContents, ext \in {".yaml", ".md"},
          options \in LintOptions :
           LET parts == IF ext = ".md" THEN getPageSegments(text)
                        ELSE <<text, null>>
           IN  /\ content = text /\ extname = ext
               /\ markdownText = parts[2]
               /\ LintStart(parts[1], options[1], options[2])
    /\ write \in BOOLEAN /\ debug \in BOOLEAN
    /\ written = <<>> /\ filePc = "linting"
    /\ runNumber = 1 /\ firstFixed = <<>>
    /\ EditorStart /\ ScanIdle /\ PageIdle /\ BatchIdle

\* lintFile after lint has returned: "If linting fixed any problems, save
\* the results."  An empty string is not truthy.
LintFileSave ==
    /\ filePc = "linting"
    /\ pc = "done"
    /\ LET fixedContent == IF markdownText # null
                           THEN joinPageSegments(Fixed, markdownText)
                           ELSE Fixed
       IN  written' =
               IF Fixed # null /\ Fixed # <<>> /\ yamlText # Fixed
               THEN IF write = FALSE \/ debug THEN written
                    ELSE Append(written, fixedContent)
               ELSE written
    /\ filePc' = "returned"
    /\ UNCHANGED <<extname, content, markdownText, write, debug, editorVars,
                   pageVars, lintVars, batchVars, scanVars>>

\* lint threw: the promise of lintFile is rejected.
LintFileReject ==
    /\ filePc = "linting"
    /\ pc = "thrown"
    /\ filePc' = "rejected"
    /\ UNCHANGED <<extname, content, markdownText, write, debug, written,
                   editorVars, pageVars, lintVars, batchVars, scanVars>>

FileNext ==
    \/ Prepass
    \/ ParserOpen
    \/ QuotedLoop
    \/ ParserWarning
    \/ ParserClose
    \/ ParserError
    \/ ParserThrow
    \/ ParserFinish
    \/ LintFileSave
    \/ LintFileReject

SpecFile == FileInit /\ [][FileNext]_vars

(***************************************************************************)
(* SpecBatch: the command line resolves its PATH arguments to files and    *)
(* has a Batch check them one after the other.                             *)
(***************************************************************************)
\* The files of the directory the command line runs in, and what
\* check.checkFile does with each: it resolves to a result whose issues have
\* the given levels, or it rejects with an error of the given code.
Files == {"subfolder/a.yaml", "subfolder/b.txt"}

Fates ==
    {[code |-> "none", levels |-> l] :
        l \in {<<>>, <<"error">>, <<"warning", "fixed">>}}
        \cup {[code |-> c, levels |-> <<>>] :
                 c \in {"ENOENT", "EPERM", "EACCES"}}

PathArguments ==
    {"subfolder", "subfolder/*", "subfolder/*.txt", "subfolder/a.yaml",
     "ugabooga"}

\* normalizePattern(pattern): a directory stands for the YAML and Markdown
\* files below it.
normalizePattern(pattern) ==
    IF pattern = "subfolder" THEN "subfolder/**/*.{yaml,yml,md}"
    ELSE pattern

\* glob(pattern, {realpath: true}): the files that match, sorted.
globPromise(pattern) ==
    CASE pattern = "subfolder/**/*.{yaml,yml,md}" -> <<"subfolder/a.yaml">>
      [] pattern = "subfolder/*" -> <<"subfolder/a.yaml", "subfolder/b.txt">>
      [] pattern = "subfolder/*.txt" -> <<"subfolder/b.txt">>
      [] pattern = "subfolder/a.yaml" -> <<"subfolder/a.yaml">>
      [] OTHER -> <<>>

\* resolvePaths(patterns): the path sets of the patterns, one after another.
RECURSIVE resolvePaths(_)
resolvePaths(pathPatterns) ==
    IF pathPatterns = <<>> THEN <<>>
    ELSE globPromise(normalizePattern(Head(pathPatterns)))
             \o resolvePaths(Tail(pathPatterns))

\* new Set('ENOENT', 'EPERM'): the Set constructor takes one iterable, so
\* the set holds the characters of its first argument.
unreadableErrors ==
    LET iterable == <<"E", "N", "O", "E", "N", "T">>
    IN  {iterable[i] : i \in 1..Len(iterable)}

RECURSIVE CountLevels(_, _)
CountLevels(total, levels) ==
    IF levels = <<>> THEN total
    ELSE CountLevels(
             IF Head(levels) = "error"
             THEN [total EXCEPT !.errors = @ + 1]
             ELSE IF Head(levels) = "fixed"
             THEN [total EXCEPT !.fixed = @ + 1]
             ELSE [total EXCEPT !.warnings = @ + 1],
             Tail(levels))

\* Batch.checkFile(filePath): [summary, outcome], outcome being "result",
\* "null" or the exception the promise is rejected with.  An array has no
\* add method: unreadablePaths.add(filePath) is a TypeError.
checkFile(total, filePath, fate) ==
    LET counted ==
            IF fate.code = "none" THEN CountLevels(total, fate.levels)
            ELSE total
    IN  [summary |-> [counted EXCEPT !.files = @ + 1],
         outcome |-> IF fate.code = "none" THEN "result"
                     ELSE IF fate.code \in unreadableErrors THEN "TypeError"
                     ELSE fate.code]

BatchInit ==
    /\ fileSystem \in [Files -> Fates]
    /\ patterns \in UNION {[1..n -> PathArguments] : n \in 1..MaxPatterns}
    /\ filePaths = <<>> /\ summary = NewSummary /\ results = <<>>
    /\ exitCode = 0 /\ batchPc = "resolve"
    /\ EditorStart /\ ScanIdle /\ PageIdle /\ LintIdle /\ FileIdle

\* The callback of runWithOptions up to its loop over the files.
ResolvePaths ==
    /\ batchPc = "resolve"
    /\ filePaths' = resolvePaths(patterns)
    /\ IF filePaths' = <<>>
       THEN exitCode' = 1 /\ batchPc' = "nofiles"
       ELSE exitCode' = exitCode /\ batchPc' = "files"
    /\ UNCHANGED <<fileSystem, patterns, summary, results, editorVars, scanVars,
                   pageVars, lintVars, fileVars>>

\* One pass of the loop: await batch.reportFile(filePath, null).  When the
\* promise is rejected the callback is left and runWithOptions sets the
\* exit code.
ReportFile ==
    /\ batchPc = "files"
    /\ Len(results) < Len(filePaths)
    /\ LET filePath == filePaths[Len(results) + 1]
       IN  \E R \in {checkFile(summary, filePath, fileSystem[filePath])} :
               /\ summary' = R.summary
               /\ results' = Append(results, [filePath |-> filePath,
                                              outcome |-> R.outcome])
               /\ IF R.outcome \in {"result", "null"}
                  THEN exitCode' = exitCode /\ batchPc' = batchPc
                  ELSE exitCode' = 1 /\ batchPc' = "failed"
    /\ UNCHANGED <<fileSystem, patterns, filePaths, editorVars, scanVars, pageVars,
                   lintVars, fileVars>>

\* batch.reportSummary(); batch.setExitCode().
ReportSummary ==
    /\ batchPc = "files"
    /\ Len(results) = Len(filePaths)
    /\ exitCode' = IF summary.errors > 0 THEN 1 ELSE exitCode
    /\ batchPc' = "summarized"
    /\ UNCHANGED <<fileSystem, patterns, filePaths, summary, results,
                   editorVars, scanVars, pageVars, lintVars, fileVars>>

BatchNext ==
    \/ ResolvePaths
    \/ ReportFile
    \/ ReportSummary

SpecBatch == BatchInit /\ [][BatchNext]_vars

(***************************************************************************)
(* SpecFind: findProbableEndOfQuotedScalar on its own, over every short    *)
(* string of quotes, backslashes, line breaks and plain characters.        *)
(***************************************************************************)
ScanStrings ==
    UNION {[1..n -> {"'", "\"", "\\", "\n", "a"}] : n \in 0..MaxScan}

FindInit ==
    /\ \E string \in ScanStrings, quoteType \in {"'", "\""},
          start \in 0..MaxScan, exact \in BOOLEAN, indent \in {0, 1} :
          /\ start <= Len(string)
          /\ searched = [string |-> string, quoteType |-> quoteType,
                         start |-> start, exact |-> exact, indent |-> indent]
    /\ ending = <<>>
    /\ EditorStart /\ PageIdle /\ LintIdle /\ FileIdle /\ BatchIdle

FindEnd ==
    /\ searched # <<>> /\ ending = <<>>
    /\ ending' = findProbableEndOfQuotedScalar(
                      searched.string, searched.quoteType, searched.start,
                      searched.exact, searched.indent)
    /\ UNCHANGED <<searched, editorVars, pageVars, lintVars, fileVars,
                   batchVars>>

FindNext == FindEnd

SpecFind == FindInit /\ [][FindNext]_vars

(***************************************************************************)
(* The properties checked.                                                 *)
(***************************************************************************)

\* C1: lint never throws on a YAML syntax fault: whatever the parser or a
\* detector meets, every parser warning and every repair of the listener
\* included (the deficient-indentation repair for any existing indentation
\* of the warned line), ends up as an issue; an exception leaves lint only
\* when the base parser itself raised one without a mark.
C1_ThrowsOnlyUnmarkedParserErrors == pc = "thrown" => thrownBy = "parser"

\* C2: what lint returns has fixed non-null iff fix is true, and with fix
\* false every returned issue has its mark.position within [0, len(text)],
\* whichever detector or parser error produced it.
C2_MarksWithinText ==
    pc = "done" =>
        /\ Fixed # null <=> fix
        /\ ~fix => \A i \in 1..Len(issues) :
                       issues[i].position \in 0..Len(yamlText)

\* C3: the quoted-scalar loop of the listener terminates, for texts with and
\* without a final newline.  A pass that stays in the loop either escapes one
\* quote of the text or is the one repair of a missing end quote, so a loop
\* that terminates has stayed for at most len(text) + 1 passes.
C3_QuotedLoopTerminates ==
    pc = "quoted" => loop.iterations <= Len(yamlText) + 1

\* C4: fixing is idempotent: the second lint, of the fixed output of the
\* first and again with fix, reports no issue of level fixed and returns a
\* fixed string equal to its input up to whitespace.
C4_FixIsIdempotent ==
    runNumber = 2 /\ pc = "done" =>
        /\ \A i \in 1..Len(issues) : issues[i].level # "fixed"
        /\ SelectSeq(fixedEditor.value, LAMBDA c : ~IsSpace(c))
               = SelectSeq(yamlText, LAMBDA c : ~IsSpace(c))

\* C5: whatever open and close events the parser delivers, the returned
\* issues never hold two issues with the same (mark.position, reason).
C5_NoDuplicateIssues ==
    pc = "done" =>
        \A i, j \in 1..Len(issues) :
            i # j => <<issues[i].position, issues[i].reason>>
                         # <<issues[j].position, issues[j].reason>>

\* C6: a returned issue has level fixed if and only if fix was true and the
\* repair of that issue was applied to the fixed buffer.
C6_FixedIffRepairApplied ==
    pc = "done" =>
        \A i \in 1..Len(issues) :
            issues[i].level = "fixed" <=> fix /\ issues[i].applied

\* C7: after any sequence of splices, originalPosition(currentPosition(p))
\* is p, here for every position p of the original string whose character
\* is still in the edited string.
C7_PositionsRoundTrip ==
    \A p \in 0..(Len(editor.originalValue) - 1) :
        (\E i \in 1..Len(origin) : origin[i] = p)
            => OriginalPosition(editor, CurrentPosition(editor, p)) = p

\* C8: joinPageSegments of the two segments of getPageSegments(x) is x, for
\* every page x that has no front-matter or whose front-matter begins with a
\* --- line at offset 0.
C8_SplitJoinRoundTrip ==
    (/\ segments # <<>>
     /\ \/ segments[1] = <<>>
        \/ StartsWithAt(pageText, 0, yamlDivider))
        => joined = pageText

\* C9: the pre-pass emits exactly one issue for every disallowed code point
\* of the text (a control character, a high surrogate no low surrogate
\* follows, a low surrogate no high surrogate precedes), in order, with the
\* mark at the offset of that code point and a message that names it, and
\* the buffer the parser gets is the text without its disallowed code points.
C9_PrepassReportsEveryOccurrence ==
    LET disallowed ==
            {i \in 0..(Len(yamlText) - 1) :
                \/ IsControl(At(yamlText, i))
                \/ /\ IsHighSurrogate(At(yamlText, i))
                   /\ ~IsLowSurrogate(At(yamlText, i + 1))
                \/ /\ IsLowSurrogate(At(yamlText, i))
                   /\ ~IsHighSurrogate(At(yamlText, i - 1))}
        kept == SelectSeq([i \in 1..Len(yamlText) |-> i - 1],
                          LAMBDA i : i \notin disallowed)
    IN  pc = "parse" /\ nOpens = 0 =>
            /\ Len(issues) = Cardinality(disallowed)
            /\ \A k \in 1..Len(issues) :
                   /\ issues[k].position \in disallowed
                   /\ issues[k].detail = At(yamlText, issues[k].position)
                   /\ \A j \in 1..(k - 1) :
                          issues[j].position < issues[k].position
            /\ stateEditor.value = [k \in 1..Len(kept) |-> At(yamlText, kept[k])]

\* C10: the issue of a disallowed code point has level fixed exactly when fix
\* and removeInvalidCharacters are both true; with fix true and
\* removeInvalidCharacters false the fixed buffer keeps every character of
\* the text, the later repairs being applied at the right characters.  The
\* second part is stated of the texts whose disallowed code points are
\* control characters no two of which are adjacent: of them the pre-pass
\* reports the right code points.
C10_InvalidCharactersKept ==
    LET single ==
            \A i \in 1..Len(yamlText) :
                /\ ~IsLowSurrogate(yamlText[i])
                /\ IsControl(yamlText[i]) => ~IsControl(At(yamlText, i))
    IN  pc = "done" =>
            /\ \A i \in 1..Len(issues) :
                   issues[i].reason = "nonprintable" =>
                       (issues[i].level = "fixed"
                            <=> fix /\ removeInvalidCharacters)
            /\ fix /\ ~removeInvalidCharacters /\ single =>
                   \A c \in {yamlText[i] : i \in 1..Len(yamlText)} :
                       Cardinality({i \in 1..Len(fixedEditor.value) :
                                        fixedEditor.value[i] = c})
                           >= Cardinality({i \in 1..Len(yamlText) :
                                               yamlText[i] = c})

\* C11: every issue 'unescaped quote in quoted string' is marked at the
\* offset, in the original text, of a quote that the tokens-after-string
\* pattern does not follow, and no quote gets two such issues: the closing
\* quote of a scalar, which the pattern follows, yields no issue.
C11_UnescapedQuoteIssues ==
    \A i \in 1..Len(issues) :
        issues[i].reason = "unescaped quote" =>
            /\ At(yamlText, issues[i].position) \in {"'", "\""}
            /\ ~tokensAfterString(SliceFrom(yamlText, issues[i].position + 1))
            /\ \A j \in 1..Len(issues) :
                   (j # i /\ issues[j].reason = "unescaped quote")
                       => issues[j].position # issues[i].position

\* C12: the pass of the boundary loop that finds an inexact end emits one
\* 'quoted string has no end quote' issue marked at the guessed end (a line
\* break or the end of the original text) and puts a closing quote where the
\* loop goes on; the next pass then leaves the loop and emits no further
\* boundary issue for the scalar.
C12_NoEndQuoteRepair ==
    /\ [](LET mark == issues[Len(issues)].position
          IN  (/\ pc = "quoted"
               /\ loop.iterations > 0
               /\ issues # <<>>
               /\ issues[Len(issues)].reason = "no end quote") =>
                  /\ mark = Len(yamlText) \/ At(yamlText, mark) = "\n"
                  /\ At(input, loop.startPosition) = "\""
                  /\ \A j \in 1..(Len(issues) - 1) :
                         issues[j].reason = "no end quote"
                             => issues[j].position # mark)
    /\ [][(/\ pc = "quoted"
           /\ loop.iterations > 0
           /\ issues # <<>>
           /\ issues[Len(issues)].reason = "no end quote") =>
              /\ pc' = "parse"
              /\ \A j \in (Len(issues) + 1)..Len(issues') :
                     issues'[j].reason
                         \notin {"no end quote", "unescaped quote"}]_vars

\* C13: when the boundary loop had nothing to repair (the double-quoted
\* scalars are cleanly terminated), every 'Invalid escape sequence' issue is
\* marked at a backslash of the original text that lies inside a
\* double-quoted scalar and is followed neither by a simple escape nor by a
\* hex escape, and no backslash gets two issues: other backslashes are left
\* alone.
C13_InvalidEscapes ==
    (\A i \in 1..Len(issues) :
         issues[i].reason \notin {"unescaped quote", "no end quote"})
    => \A i \in 1..Len(issues) :
           issues[i].reason = "invalid escape" =>
               /\ At(yamlText, issues[i].position) = "\\"
               /\ ~isSimpleEscape(At(yamlText, issues[i].position + 1))
               /\ ~isHexEscape(yamlText, issues[i].position + 1)
               /\ \E o \in 0..(issues[i].position - 1) :
                      /\ At(yamlText, o) = "\""
                      /\ QuoteEnd(yamlText, "\"", o + 1) > issues[i].position
               /\ \A j \in 1..Len(issues) :
                      (j # i /\ issues[j].reason = "invalid escape")
                          => issues[j].position # issues[i].position

\* C14: a token that starts with an @ gets exactly one '`@` cannot start any
\* token' issue per site, marked at the @; once the run is over and that
\* issue is the only one, its level is warning without fix, and with fix it
\* is fixed and the fixed text is the checked text with a double quote put
\* before the @ and after some end e of the scalar and a backslash put before
\* every double quote in between, nothing else changed.
C14_AtSignRepair ==
    /\ \A i \in 1..Len(issues) :
           issues[i].reason = "at sign" =>
               /\ At(yamlText, issues[i].position) = "@"
               /\ \A j \in 1..Len(issues) :
                      (j # i /\ issues[j].reason = "at sign")
                          => issues[j].position # issues[i].position
    /\ (pc = "done" /\ Len(issues) = 1 /\ issues[1].reason = "at sign") =>
           LET at == issues[1].position
               Quotes(s, k) == Cardinality({j \in 1..k : s[j] = "\""})
               Escaped(s) ==
                   [m \in 1..(Len(s) + Quotes(s, Len(s))) |->
                       IF \E k \in 1..Len(s) : m = k + Quotes(s, k)
                       THEN s[CHOOSE k \in 1..Len(s) : m = k + Quotes(s, k)]
                       ELSE "\\"]
               Wrapped14(e) ==
                   Slice(yamlText, 0, at) \o <<"\"">>
                       \o Escaped(Slice(yamlText, at, e)) \o <<"\"">>
                       \o SliceFrom(yamlText, e)
           IN  IF fix
               THEN /\ issues[1].level = "fixed"
                    /\ \E e \in (at + 1)..Len(yamlText) :
                           fixedEditor.value = Wrapped14(e)
               ELSE issues[1].level = "warning"

C16_IndentRepair ==
    [][\A w \in 1..Len(tokenIndentWarnings) :
           LET i == tokenIndentWarnings[w]
               LineOf(s, p) == Cardinality({k \in 0..(p - 1) : At(s, k) = "\n"})
               line == LineOf(yamlText, issues[i].position)
               fixedValue == fixedEditor'.value
               lineStart ==
                   CHOOSE k \in 0..Len(fixedValue) :
                       /\ LineOf(fixedValue, k) = line
                       /\ k > 0 => At(fixedValue, k - 1) = "\n"
           IN  (/\ pc = "parse" /\ fix /\ line > 0
                /\ Len(nodes') < Len(nodes)
                /\ IF nodes = <<>> THEN FALSE
                   ELSE /\ nodes[Len(nodes)].kind = "quoted"
                        /\ ~nodes[Len(nodes)].anchor)
               => /\ pc' = "parse"
                  /\ issues'[i].level = "fixed"
                  /\ BlankRun(fixedValue, lineStart) = tokenIndent + 2
                  /\ At(fixedValue, lineStart + tokenIndent + 2) # "\t"
                  /\ input' = input]_vars

\* C17: when the parser raises a marked error (the run ends although the
\* parser has not read its whole input), the error is dropped if the
\* character of the parser's buffer that its mark points at is an @, and it
\* is otherwise appended as one issue of level error, whose reason is the
\* mixed spaces and tabs one only if the marked line of the parser's buffer
\* starts with whitespace that has a space and a tab, and is not left as bad
\* indentation on such a line.
C17_CatchBlock ==
    [][LET reading == IF nodes = <<>> THEN FALSE
                      ELSE nodes[Len(nodes)].kind = "quoted"
           mark == IF reading THEN Len(input) - 1 ELSE parserPosition
           lineStart == LineStart(input, mark)
           indent == Slice(input, lineStart,
                           lineStart + SpaceRun(SliceFrom(input, lineStart), 0))
           mixed == /\ \E k \in 1..Len(indent) : indent[k] = " "
                    /\ \E k \in 1..Len(indent) : indent[k] = "\t"
           finished ==
               /\ nodes = <<>>
               /\ \A j \in parserPosition..(Len(input) - 1) :
                      IsSpace(At(input, j)) \/ At(input, j) = NUL
       IN  (pc = "parse" /\ pc' = "done" /\ ~finished) =>
               IF At(input, mark) = "@" THEN issues' = issues
               ELSE /\ Len(issues') = Len(issues) + 1
                    /\ SubSeq(issues', 1, Len(issues)) = issues
                    /\ issues'[Len(issues')].level = "error"
                    /\ issues'[Len(issues')].reason
                           \in {"parser error", "bad indentation",
                                "mixed spaces and tabs"}
                    /\ issues'[Len(issues')].reason = "mixed spaces and tabs"
                           => mixed
                    /\ issues'[Len(issues')].reason = "bad indentation"
                           => ~mixed]_vars

\* C18: when lintFile has returned, it has written the file at most once;
\* it has written it exactly when fix was requested, options.write was not
\* false and the fixed text differs from the text that was checked,
\* whatever debug and removeInvalidCharacters are; what it wrote is the
\* fixed content; and for a .md path with an empty front-matter there is no
\* issue and nothing written.
C18_WritesWhenFixed ==
    filePc = "returned" =>
        /\ Len(written) <= 1
        /\ written # <<>> <=> (fix /\ write /\ fixedEditor.value # yamlText)
        /\ written # <<>> =>
               written[1] = IF markdownText = null THEN fixedEditor.value
                            ELSE joinPageSegments(fixedEditor.value,
                                                  markdownText)
        /\ (extname = ".md" /\ yamlText = <<>>) =>
               issues = <<>> /\ written = <<>>

\* C19: every file whose check failed with ENOENT or EPERM has made
\* Batch.checkFile resolve to null, its path is in summary.unreadablePaths,
\* it is counted as one error and one file, and the batch has gone on; a
\* failure with any other code is rethrown.
C19_UnreadableFiles ==
    LET unreadable ==
            {k \in 1..Len(results) :
                fileSystem[results[k].filePath].code \in {"ENOENT", "EPERM"}}
        errorIssues(k) ==
            Cardinality({i \in 1..Len(fileSystem[results[k].filePath].levels) :
                fileSystem[results[k].filePath].levels[i] = "error"})
        RECURSIVE Sum(_)
        Sum(k) == IF k = 0 THEN 0 ELSE errorIssues(k) + Sum(k - 1)
    IN  /\ \A k \in unreadable :
               /\ results[k].outcome = "null"
               /\ \E u \in 1..Len(summary.unreadablePaths) :
                      summary.unreadablePaths[u] = results[k].filePath
        /\ unreadable # {} => batchPc # "failed"
        /\ summary.files = Len(results)
        /\ summary.errors = Sum(Len(results)) + Cardinality(unreadable)
        /\ \A k \in 1..Len(results) :
               fileSystem[results[k].filePath].code = "EACCES"
                   => results[k].outcome = "EACCES"

\* C20: the files handed to the batch have no duplicate, and when the batch
\* is summarized every file that some PATH argument matches has been counted
\* once.
C20_NoFileCheckedTwice ==
    /\ \A i, j \in 1..Len(filePaths) :
           i # j => filePaths[i] # filePaths[j]
    /\ batchPc = "summarized" =>
           summary.files =
               Cardinality({f \in Files :
                   \E n \in 1..Len(patterns) :
                       LET paths == globPromise(normalizePattern(patterns[n]))
                       IN  \E m \in 1..Len(paths) : paths[m] = f})


\* C21: after any sequence of splices the edit list is strictly increasing by
\* position, every edit's size is the offset between current and original
\* index of the original characters it governs (none before the first edit),
\* the rightmost size is len(value) - len(originalValue), and originalValue
\* is the string the editor was constructed from.
C21_EditsSortedAndAccumulated ==
    LET E == editor.edits
        last == Len(editor.value) - 1
    IN  /\ \A i \in 1..(Len(E) - 1) : E[i].position < E[i + 1].position
        /\ E # <<>> =>
               E[Len(E)].size = Len(editor.value) - Len(editor.originalValue)
        /\ editor.originalValue \in Originals
        /\ \A q \in 0..last :
               origin[q + 1] # -1 =>
                   editor.originalValue[origin[q + 1] + 1] = editor.value[q + 1]
        /\ \A i \in 1..Len(E) : \A q \in 0..last :
               (/\ origin[q + 1] # -1
                /\ q >= E[i].position
                /\ (i < Len(E) => q < E[i + 1].position))
                   => q - origin[q + 1] = E[i].size
        /\ \A q \in 0..last :
               (origin[q + 1] # -1 /\ (E = <<>> \/ q < E[1].position))
                   => origin[q + 1] = q

\* Every splice allowed has been made, two edits are stored and the string
\* has changed its length.
C21_Witness ==
    /\ nSplices = MaxSplices
    /\ Len(editor.edits) >= 2
    /\ Len(editor.value) # Len(editor.originalValue)

\* C22 as stated: a splice drops the edits inside [position, position +
\* remove), folds the size of the rightmost edit before position or dropped
\* into the new edit, and keeps, shifted, the edits after that range,
\* whatever the length of insert.  (An edit at position itself is taken as
\* absorbed, and an edit exactly at position + remove may go either way.)
C22_AbsorbsRemovedRange ==
    [][\A position \in 0..Len(editor.value), remove \in 0..Len(editor.value),
         n \in 0..MaxInsert :
          LET size == n - remove
              said(absorbed(_), kept(_)) ==
                  LET before == SelectSeq(editor.edits,
                                          LAMBDA e : e.position < position)
                      folded == SelectSeq(editor.edits,
                                    LAMBDA e : e.position < position
                                               \/ absorbed(e))
                      after == SelectSeq(editor.edits, kept)
                  IN  before
                          \o <<[position |-> position,
                                size |-> size + (IF folded = <<>> THEN 0
                                                 ELSE folded[Len(folded)].size)]>>
                          \o [k \in 1..Len(after) |->
                                 [position |-> after[k].position + size,
                                  size |-> after[k].size + size]]
          IN  (/\ position + remove <= Len(editor.value)
               /\ remove + n > 0
               /\ editor' = Splice(editor, position, remove, Repeat("x", n))
               /\ origin' = SpliceOrigin(origin, position, remove,
                                         Repeat("x", n)))
                  => \E edge \in BOOLEAN : editor'.edits = said(
                         LAMBDA e : \/ e.position = position
                                    \/ /\ e.position > position
                                       /\ e.position < position + remove
                                    \/ /\ edge
                                       /\ e.position = position + remove,
                         LAMBDA e : /\ e.position > position
                                    /\ \/ e.position > position + remove
                                       \/ /\ ~edge
                                          /\ e.position = position + remove)]_vars

\* C22 amended: a splice absorbs the edit at position and every later edit
\* that its size would not leave after position; every other later edit is
\* kept, position and size shifted by insert.length - remove.
C22_AbsorbsWhatCannotFollow ==
    [][\A position \in 0..Len(editor.value), remove \in 0..Len(editor.value),
         n \in 0..MaxInsert :
          LET size == n - remove
              said(absorbed(_), kept(_)) ==
                  LET before == SelectSeq(editor.edits,
                                          LAMBDA e : e.position < position)
                      folded == SelectSeq(editor.edits,
                                    LAMBDA e : e.position < position
                                               \/ absorbed(e))
                      after == SelectSeq(editor.edits, kept)
                  IN  before
                          \o <<[position |-> position,
                                size |-> size + (IF folded = <<>> THEN 0
                                                 ELSE folded[Len(folded)].size)]>>
                          \o [k \in 1..Len(after) |->
                                 [position |-> after[k].position + size,
                                  size |-> after[k].size + size]]
          IN  (/\ position + remove <= Len(editor.value)
               /\ remove + n > 0
               /\ editor' = Splice(editor, position, remove, Repeat("x", n))
               /\ origin' = SpliceOrigin(origin, position, remove,
                                         Repeat("x", n)))
                  => editor'.edits = said(
                         LAMBDA e : \/ e.position = position
                                    \/ /\ e.position > position
                                       /\ e.position + size <= position,
                         LAMBDA e : /\ e.position > position
                                    /\ e.position + size > position)]_vars

\* Splices have absorbed stored edits and two edits are left.
C22_Witness ==
    /\ nSplices = MaxSplices
    /\ Len(editor.edits) = 2
    /\ editor.edits[1].position + 1 < editor.edits[2].position

\* C23: for every original position whose character survives,
\* currentPosition is the index of that character in value.
C23_CurrentPosition ==
    \A q \in 0..(Len(editor.value) - 1) :
        origin[q + 1] # -1 => CurrentPosition(editor, origin[q + 1]) = q

\* C24: for every character of value that comes from the original string,
\* originalPosition is its index in originalValue, and the mark carries that
\* index, the number of line breaks before it and its offset in its line.
C24_OriginalPositionAndMark ==
    \A q \in 0..(Len(editor.value) - 1) :
        origin[q + 1] # -1 =>
            LET op == origin[q + 1]
                breaks == {b \in 0..(op - 1) : At(editor.originalValue, b) = "\n"}
                start == IF breaks = {} THEN 0
                         ELSE 1 + CHOOSE b \in breaks : \A c \in breaks : c <= b
            IN  /\ OriginalPosition(editor, q) = op
                /\ YamlMark(editor, q) =
                       [position |-> op, line |-> Cardinality(breaks),
                        column |-> op - start]


\* C25 as stated: with exact true the search returns the first quote at or
\* after start that is not escaped, or (-1, true); with exact false it never
\* returns -1, and returns (string.length, false) when there is neither an
\* unescaped quote nor a line break before a line that looks like the next
\* entry.
C25_NeverMinusOneWhenGuessing ==
    ending # <<>> =>
        LET string == searched.string
            quoteType == searched.quoteType
            start == searched.start
            RECURSIVE RunBefore(_, _)
            RunBefore(c, i) ==
                IF i > start /\ At(string, i - 1) = c
                THEN 1 + RunBefore(c, i - 1) ELSE 0
            unescaped == {i \in start..(Len(string) - 1) :
                            /\ string[i + 1] = quoteType
                            /\ IF quoteType = "'"
                               THEN /\ At(string, i + 1) # "'"
                                    /\ RunBefore("'", i) % 2 = 0
                               ELSE RunBefore("\\", i) % 2 = 0}
            first == IF unescaped = {} THEN -1
                     ELSE CHOOSE i \in unescaped : \A j \in unescaped : i <= j
            breaks == {b \in start..(Len(string) - 1) : string[b + 1] = "\n"}
            lineEnds == {b \in breaks :
                           lineAfterQuotedScalar(SliceFrom(string, b + 1))
                               \in 0..searched.indent}
            break == CHOOSE b \in breaks : \A c \in breaks : b <= c
        IN  IF searched.exact
            THEN ending = <<first, TRUE>>
            ELSE /\ ending[1] # -1
                 /\ (first = -1 /\ lineEnds = {})
                        => ending = <<Len(string), FALSE>>

\* C25 amended: with exact true as stated.  With exact false an exact result
\* is the first unescaped quote and a guess is the end of the string or a
\* line break before a line that looks like the next entry; (string.length,
\* false) is returned when no unescaped quote and no line break is left;
\* (-1, true) is returned only when no unescaped quote is left but a line
\* break is, and it is returned when no quote at all is left and the line
\* after the next line break does not look like the next entry.
C25_GivesUpBeforeAnotherLine ==
    ending # <<>> =>
        LET string == searched.string
            quoteType == searched.quoteType
            start == searched.start
            RECURSIVE RunBefore(_, _)
            RunBefore(c, i) ==
                IF i > start /\ At(string, i - 1) = c
                THEN 1 + RunBefore(c, i - 1) ELSE 0
            unescaped == {i \in start..(Len(string) - 1) :
                            /\ string[i + 1] = quoteType
                            /\ IF quoteType = "'"
                               THEN /\ At(string, i + 1) # "'"
                                    /\ RunBefore("'", i) % 2 = 0
                               ELSE RunBefore("\\", i) % 2 = 0}
            first == IF unescaped = {} THEN -1
                     ELSE CHOOSE i \in unescaped : \A j \in unescaped : i <= j
            breaks == {b \in start..(Len(string) - 1) : string[b + 1] = "\n"}
            lineEnds == {b \in breaks :
                           lineAfterQuotedScalar(SliceFrom(string, b + 1))
                               \in 0..searched.indent}
            break == CHOOSE b \in breaks : \A c \in breaks : b <= c
        IN  IF searched.exact
            THEN ending = <<first, TRUE>>
            ELSE /\ ending[2] => ending[1] \in {first, -1}
                 /\ ~ending[2] => ending[1] \in lineEnds \cup {Len(string)}
                 /\ ending[1] = -1 => first = -1 /\ breaks # {}
                 /\ (first = -1 /\ breaks = {})
                        => ending = <<Len(string), FALSE>>
                 /\ (IndexOf(string, quoteType, start) = -1 /\ breaks # {})
                        => ending = IF break \in lineEnds
                                    THEN <<break, FALSE>> ELSE <<-1, TRUE>>

\* The search has given up on a text it was to guess the end of: no quote is
\* left, and the line after the line break is not the next entry.
C25_Witness ==
    /\ ending = <<-1, TRUE>>
    /\ ~searched.exact
    /\ searched.start > 0
    /\ Len(searched.string) = MaxScan


\* C26: getPageSegments returns <<"", text>> when no line of the text is a
\* divider (--- and white space), or the first divider line is not at
\* offset 0 and the text does not look like YAML; when the first divider
\* line is at offset 0 the front matter is the text up to the next divider
\* line and the markdown is all the text after that line and its line break,
\* or the front matter is the whole text when there is no next divider line.
C26_PageSegments ==
    segments # <<>> =>
        LET text == pageText
            lineEnd(i) == IF IndexOf(text, "\n", i) = -1 THEN Len(text)
                          ELSE IndexOf(text, "\n", i)
            dividers == {i \in 0..(Len(text) - 1) :
                           /\ i = 0 \/ text[i] = "\n"
                           /\ StartsWithAt(text, i, <<"-", "-", "-">>)
                           /\ \A k \in (i + 3)..(lineEnd(i) - 1) :
                                  At(text, k) \in {" ", "\t"}}
            closers == dividers \ {0}
            closer == CHOOSE i \in closers : \A j \in closers : i <= j
        IN  IF dividers = {} \/ (0 \notin dividers /\ ~Yamlish(text))
            THEN segments = <<<<>>, text>>
            ELSE IF 0 \notin dividers THEN TRUE
            ELSE IF closers = {} THEN segments = <<text, <<>>>>
            ELSE segments = <<Slice(text, 0, closer),
                              SliceFrom(text, lineEnd(closer) + 1)>>


\* C27: with fix, the fixed string returned differs from the text checked
\* only if some returned issue has level fixed.
C27_ChangedOnlyWhenFixed ==
    (pc = "done" /\ fix /\ Fixed # yamlText) =>
        \E i \in 1..Len(issues) : issues[i].level = "fixed"

\* C28: with fix and removeInvalidCharacters both true, and as long as no
\* deficient indentation has been met, the fixed buffer is the state buffer
\* after the pre-pass and after every repair of the listener.
C28_FixedFollowsState ==
    (/\ fix /\ removeInvalidCharacters /\ pc # "idle"
     /\ \A i \in 1..Len(issues) : issues[i].reason # "deficient indentation")
        => fixedEditor.value = stateEditor.value

\* C29: when the boundary loop had nothing to repair, every 'Invalid escape
\* sequence' issue (each one is a backslash deleted from the state buffer)
\* is marked between the opening and the closing quote of a double-quoted
\* scalar of the text.
C29_EscapesInsideTheScalar ==
    (\A i \in 1..Len(issues) :
         issues[i].reason \notin {"unescaped quote", "no end quote"})
    => \A i \in 1..Len(issues) :
           issues[i].reason = "invalid escape" =>
               \E o \in 0..(issues[i].position - 1) :
                   /\ At(yamlText, o) = "\""
                   /\ QuoteEnd(yamlText, "\"", o + 1) > issues[i].position

\* C30: a text without U+0000 never gets one into the fixed buffer or into
\* the state editor's value.
C30_NoSentinelInBuffers ==
    (\A i \in 1..Len(yamlText) : yamlText[i] # NUL) =>
        /\ \A i \in 1..Len(fixedEditor.value) : fixedEditor.value[i] # NUL
        /\ \A i \in 1..Len(stateEditor.value) : stateEditor.value[i] # NUL

====
